---- MODULE Spec2Model ----
(***************************************************************************)
(* Research orchestration engine of the calibre MCP plugin.                *)
(*                                                                         *)
(*  - RechercheAgent (calibre_plugin/recherche_agent.py): one agent, a     *)
(*    sequence of answer_with_sources calls.  Every RPC round trip and     *)
(*    every chat-provider call is a suspension point; the agent's position *)
(*    between two of them is pc.  The replies of the tool server and of    *)
(*    the chat provider are chosen by the environment.                     *)
(*  - MCPWebSocketServer (src/calibre_mcp_server/websocket_server.py):     *)
(*    one connection handled by _handle_client, message by message.        *)
(*                                                                         *)
(* Text is modelled as a sequence of words; None and "" are both the empty *)
(* sequence (both are falsy in the source).                                *)
(***************************************************************************)
EXTENDS Integers, Sequences, FiniteSets, TLC

\* ------------------------------------------------------------------ bounds
MaxRounds == 2        \* largest max_search_rounds preference explored
MaxTotal == 3         \* largest max_total_hits preference explored
MaxExcerptsPref == 2  \* largest max_excerpts preference explored
MaxReply == 2         \* longest hit list one search reply carries
MaxMsgs == 3          \* messages a client sends on one connection
MaxCalls == 2         \* answer_with_sources calls on one agent
MaxTokens == 5        \* longest token list handed to _parse_boolean_query
MaxQuery == 3         \* longest token list of a search tool call
MaxLimit == 2         \* largest limit of a search tool call
MaxIsbn == 2          \* longest identifier of an excerpt tool call, the worked example aside
MaxText == 3          \* longest annotation text handed to _build_snippet
MaxRaw == 3           \* longest query handed to _build_snippet
MaxWindow == 2        \* largest snippet window explored
MaxPlanWords == 3     \* longest question of free words handed to the heuristic planner
MaxTarget == 2        \* largest target_sources and max_hits_total of a search plan run on its own
MaxHeaders == 2       \* most headers of a request to the HTTP endpoint
MaxConnMsgs == 2      \* messages a client sends on each of several connections
MaxWords == 7         \* longest question handed to _resolve_effective_question on its own

\* --------------------------------------------------------------- constants
FULLTEXT_TOOL == "calibre_fulltext_search"
EXCERPT_TOOL == "calibre_get_excerpt"
FollowupWordLimit == 6

\* Falsy isbn of a raw hit (None or "").
NoIsbn == ""

\* ------------------------------------------------------------ sequence aids
Take(s, n) == IF n <= 0 THEN <<>> ELSE SubSeq(s, 1, IF n < Len(s) THEN n ELSE Len(s))

Range(s) == {s[i] : i \in 1..Len(s)}

Contains(s, x) == \E i \in 1..Len(s) : s[i] = x

SeqsUpTo(S, n) == UNION {[1..k -> S] : k \in 0..n}

\* str.strip() on a sequence of characters or words, " " being white space.
RECURSIVE LStrip(_)
LStrip(text) == IF text # <<>> /\ Head(text) = " " THEN LStrip(Tail(text)) ELSE text

RECURSIVE RStrip(_)
RStrip(text) == IF text # <<>> /\ text[Len(text)] = " " THEN RStrip(SubSeq(text, 1, Len(text) - 1)) ELSE text

Strip(text) == RStrip(LStrip(text))

\* --------------------------------------------------------------- data model
\* SearchHit(book_id, title, isbn, snippet, origin_query); title and snippet
\* are copied through unchanged and play no part in any decision.
SearchHit(raw, query) == [book_id |-> raw.book_id, isbn |-> raw.isbn, origin_query |-> query]

identity_key(hit) == <<hit.book_id, hit.isbn>>

\* EnrichedHit(hit, excerpt_text, excerpt_source); excerpt_text is "none"
\* (None), "empty" ("") or "text" (a non-empty string).
EnrichedHit(hit, excerpt_text) == [hit |-> hit, excerpt_text |-> excerpt_text]

\* Raw hits a search reply can carry: two books with an isbn, and book 1
\* once more without one (a different identity key).
RawHits == {[book_id |-> 1, isbn |-> "i1"], [book_id |-> 2, isbn |-> "i2"], [book_id |-> 1, isbn |-> NoIsbn]}

\* A reply to a search call: a transport error, or a hit list.
SearchReplies == {[error |-> TRUE, hits |-> <<>>]} \cup {[error |-> FALSE, hits |-> h] : h \in SeqsUpTo(RawHits, MaxReply)}

\* Tool lists a list_tools reply can carry (a name of "" is a tool entry
\* without a name).
ToolLists == {{}, {FULLTEXT_TOOL}, {FULLTEXT_TOOL, EXCERPT_TOOL}, {EXCERPT_TOOL}, {""}}

\* A reply to list_tools: a transport error, or a tool list.
ListToolsReplies == {[error |-> TRUE, tools |-> {}]} \cup {[error |-> FALSE, tools |-> t] : t \in ToolLists}

\* Questions the UI hands over: empty, white space only, a short one and
\* one of seven words.
QBlank == <<" ", " ">>
QShort == <<"LIN">>
QLong == <<"welche", "bus", "bus", "bus", "bus", "bus", "LIN">>
Questions == {<<>>, QBlank, QShort, QLong}

\* Lines a keyword-extraction reply of the chat provider can consist of.
P1 == <<"lin">>
P2 == <<"bus">>
P12 == <<"lin", "bus">>
PCan == <<"can">>
PrimaryLines == {<<>>, <<P12>>, <<P1, P1>>}
SecondaryLines == {<<PCan>>, <<P1>>}

\* A reply to a keyword prompt: send_chat raises, or its lines.
KwReplies(lines) == {[error |-> TRUE, lines |-> <<>>]} \cup {[error |-> FALSE, lines |-> l] : l \in lines}

\* Preferences as the settings dialog stores them: every number is > 0
\* (config.py _read_int).  target_sources and max_hits_total are the per-plan
\* limits, max_total_hits the limit of the whole call.
Configs == {c \in [max_search_rounds : 1..MaxRounds, min_hits_before_stop : {2}, max_total_hits : 1..MaxTotal, max_excerpts : 1..MaxExcerptsPref, target_sources : {2}, max_hits_total : {2}, use_llm_query_planning : BOOLEAN, second_keyword_language_enabled : BOOLEAN] : c.second_keyword_language_enabled => c.use_llm_query_planning}

\* What earlier calls can have left in the agent: nothing (a new chat), or
\* a tool cache with the question and the hits of an answered call.
AnsweredHits == <<EnrichedHit(SearchHit([book_id |-> 1, isbn |-> "i1"], P1), "text")>>

Sessions == {[tool_schemas |-> {}, last_question |-> <<>>, last_hits |-> <<>>, listed_ok |-> FALSE], [tool_schemas |-> {FULLTEXT_TOOL, EXCERPT_TOOL}, last_question |-> QLong, last_hits |-> AnsweredHits, listed_ok |-> TRUE]}

\* ------------------------------------------------------------------- state
VARIABLES
  cfg,                \* prefs read by the agent
  tool_schemas,       \* self._tool_schemas (names of the cached tools)
  last_question,      \* self._last_question
  last_hits,          \* self._last_hits
  pc,                 \* position of the running answer_with_sources call
  question,           \* the stripped question of the running call
  effective_question, \* result of _resolve_effective_question
  round_index,        \* loop variable of the search loop
  all_hits,           \* aggregated hits of the call
  all_ids,            \* identity keys of all_hits
  round_hits,         \* hits of the running round
  plans,              \* query lists of the round still to be run
  plan,               \* queries of the running plan still to be sent
  aggregated,         \* aggregated hits of the running plan
  primary_kws,        \* primary keywords, while the secondary ones are fetched
  enriched,           \* EnrichedHits built so far
  excerpt_count,      \* successful excerpt calls of the running enrichment
  result,             \* outcome of the last finished call
  obs,                \* what the call has done so far (observer)
  calls,              \* answer_with_sources calls started on the agent
  listed_ok,          \* a list_tools call of the agent has returned tools (observer)
  tool_table,         \* server: names in self._tool_manager
  srv_pc,             \* server: position of _handle_client
  inbox,              \* server: messages received on the connection, not yet handled
  current,            \* server: the request whose tool is running
  served,             \* server: messages handled, each with the response sent
  received,           \* server: messages the client has sent so far, in order
  call,               \* a function called on its own: its name and arguments
  ret                 \* what that function returned

agentVars == <<cfg, tool_schemas, last_question, last_hits, pc, question, effective_question, round_index, all_hits, all_ids, round_hits, plans, plan, aggregated, primary_kws, enriched, excerpt_count, result, obs, calls, listed_ok>>

\* The agent's state as one record, and back.
State == [cfg |-> cfg, tool_schemas |-> tool_schemas, last_question |-> last_question, last_hits |-> last_hits, pc |-> pc, question |-> question, effective_question |-> effective_question, round_index |-> round_index, all_hits |-> all_hits, all_ids |-> all_ids, round_hits |-> round_hits, plans |-> plans, plan |-> plan, aggregated |-> aggregated, primary_kws |-> primary_kws, enriched |-> enriched, excerpt_count |-> excerpt_count, result |-> result, obs |-> obs, calls |-> calls, listed_ok |-> listed_ok]

SetState(s) ==
  /\ cfg' = s.cfg
  /\ tool_schemas' = s.tool_schemas
  /\ last_question' = s.last_question
  /\ last_hits' = s.last_hits
  /\ pc' = s.pc
  /\ question' = s.question
  /\ effective_question' = s.effective_question
  /\ round_index' = s.round_index
  /\ all_hits' = s.all_hits
  /\ all_ids' = s.all_ids
  /\ round_hits' = s.round_hits
  /\ plans' = s.plans
  /\ plan' = s.plan
  /\ aggregated' = s.aggregated
  /\ primary_kws' = s.primary_kws
  /\ enriched' = s.enriched
  /\ excerpt_count' = s.excerpt_count
  /\ result' = s.result
  /\ obs' = s.obs
  /\ calls' = s.calls
  /\ listed_ok' = s.listed_ok

NoResult == [kind |-> "none", answer |-> "", cause |-> "", hits |-> <<>>]

\* (answer_text, hits) handed back to the caller.  answer is "" (empty),
\* "research_failed" ("System: Recherche via MCP fehlgeschlagen: <cause>"),
\* "no_hits" ("System: Keine passenden Treffer ...") or "llm_text" (the
\* provider's reply).
Returned(answer, cause, hits) == [kind |-> "returned", answer |-> answer, cause |-> cause, hits |-> hits]

\* An exception leaving answer_with_sources.
Raised(exc) == [kind |-> "raised", answer |-> "", cause |-> exc, hits |-> <<>>]

\* Observer of one call: requests sent (list_tools, searches, excerpts,
\* kw_chats, answer_chats), loop iterations entered (rounds) and follow-up
\* plannings started (followups), the list_tools reply seen (listed), the
\* request a transport error answered (rpc_error), the excerpt replies
\* received with the index of their hit (excerpt_log), whether a round
\* ended with min_hits_before_stop hits or more (enough), whether the search
\* loop has ended (loop_ended) and the hits aggregated so far (found),
\* the round hits whose key was already known (dups), the hits handed to the enrichment
\* (n_hits), and the session before the call.
NoObs == [rounds |-> 0, list_tools |-> 0, searches |-> 0, excerpts |-> 0, kw_chats |-> 0, answer_chats |-> 0, followups |-> 0, listed |-> "none", rpc_error |-> "none", excerpt_log |-> <<>>, enough |-> FALSE, loop_ended |-> FALSE, found |-> 0, dups |-> 0, n_hits |-> 0, pre_question |-> <<>>, pre_hits |-> <<>>]

\* The locals of a call are dead once it has returned.
ClearLocals(s) == [s EXCEPT !.question = <<>>, !.effective_question = <<>>, !.round_index = 0, !.all_hits = <<>>, !.all_ids = {}, !.round_hits = <<>>, !.plans = <<>>, !.plan = <<>>, !.aggregated = <<>>, !.primary_kws = <<>>, !.enriched = <<>>, !.excerpt_count = 0]

\* answer_with_sources ends: a return statement, or an exception passing
\* through it.
Stop(s, res) == [ClearLocals(s) EXCEPT !.pc = "done", !.result = res]

\* A transport error answered by sending the same request again.
OnTransportErrorRetry(s, cause) == s

\* except MCPTransportError as exc: return "System: Recherche via MCP
\* fehlgeschlagen: {exc}", []
OnTransportError(s, cause) == Stop(s, Returned("research_failed", cause, <<>>))

\* ----------------------------------------------------- excerpt enrichment
\* The session update with the effective question stored.
AfterEnrichEffective(s) == [s EXCEPT !.last_question = s.effective_question, !.last_hits = s.enriched, !.pc = "ask_llm", !.obs.answer_chats = @ + 1]

\* Session update, then the prompt goes to the chat provider.
AfterEnrich(s) == [s EXCEPT !.last_question = s.question, !.last_hits = s.enriched, !.pc = "ask_llm", !.obs.answer_chats = @ + 1]

\* The excerpt condition without the count.
WantsExcerptNoCap(hit, count, c) == hit.isbn # NoIsbn

\* if hit.isbn and excerpt_count < self.max_excerpts
WantsExcerpt(hit, count, c) == hit.isbn # NoIsbn /\ count < c.max_excerpts

\* The loop of _enrich_hits_with_excerpts up to its next excerpt call.
RECURSIVE Enrich(_)
Enrich(s) ==
  LET i == Len(s.enriched) + 1 IN
  IF i > Len(s.all_hits) THEN AfterEnrich(s)
  ELSE IF WantsExcerpt(s.all_hits[i], s.excerpt_count, s.cfg)
       THEN [s EXCEPT !.pc = "excerpt", !.obs.excerpts = @ + 1]
       ELSE Enrich([s EXCEPT !.enriched = Append(@, EnrichedHit(s.all_hits[i], "none"))])

_enrich_hits_with_excerpts(s) ==
  IF EXCERPT_TOOL \notin s.tool_schemas
  THEN AfterEnrich([s EXCEPT !.enriched = [i \in 1..Len(s.all_hits) |-> EnrichedHit(s.all_hits[i], "none")]])
  ELSE Enrich([s EXCEPT !.enriched = <<>>, !.excerpt_count = 0])

\* enriched_hits = self._enrich_hits_with_excerpts(all_hits)
StartEnrichment(s) == _enrich_hits_with_excerpts([s EXCEPT !.obs.n_hits = Len(s.all_hits)])

\* One reply of the excerpt tool: "text" (a result with a non-empty text),
\* "empty" (a result without text), "fail" (MCPTransportError: connection
\* failure, error response, or no result) or "malformed" (a result, or an
\* error, that is no JSON object: payload.get, or response["error"].get
\* in _call_mcp, raises AttributeError).
ExcerptReplies == {"text", "empty", "fail", "malformed"}

\* The excerpt reply without the except clause: a failure aborts the call.
OnExcerptReplyAbort(s, reply) ==
  LET hit == s.all_hits[Len(s.enriched) + 1] IN
  IF reply = "fail" THEN OnTransportError(s, "connection")
  ELSE IF reply = "malformed" THEN Stop(s, Raised("AttributeError"))
  ELSE Enrich([s EXCEPT !.enriched = Append(@, EnrichedHit(hit, reply)), !.excerpt_count = @ + 1])

OnExcerptReply(s, reply) ==
  LET hit == s.all_hits[Len(s.enriched) + 1] IN
  IF reply = "fail"
  THEN Enrich([s EXCEPT !.enriched = Append(@, EnrichedHit(hit, "none"))])
  ELSE IF reply = "malformed" THEN Stop(s, Raised("AttributeError"))
  ELSE Enrich([s EXCEPT !.enriched = Append(@, EnrichedHit(hit, reply)), !.excerpt_count = @ + 1])

\* --------------------------------------------------------- the search loop
\* The end of the loop without the check for an empty hit list.
AfterLoopNoCheck(s) == StartEnrichment(s)

\* if not all_hits: return "System: Keine passenden Treffer ...", []
AfterLoop(s) ==
  IF s.all_hits = <<>> THEN Stop(s, Returned("no_hits", "", <<>>))
  ELSE StartEnrichment(s)

\* for round_index in range(max_rounds)
RoundInRange(i, c) == i < c.max_search_rounds

\* Rounds after the first: the loop body starts with the follow-up planning.
NextRound(s, i) ==
  IF RoundInRange(i, s.cfg)
  THEN [s EXCEPT !.round_index = i, !.pc = "followup", !.obs.rounds = @ + 1, !.obs.followups = @ + 1]
  ELSE AfterLoop(s)

\* The dedup loop without the check of the key.
RECURSIVE MergeRoundNoDedup(_, _, _, _)
MergeRoundNoDedup(hits, ids, new, c) ==
  IF new = <<>> THEN [hits |-> hits, ids |-> ids]
  ELSE IF Len(hits) + 1 >= c.max_total_hits
       THEN [hits |-> Append(hits, Head(new)), ids |-> ids \cup {identity_key(Head(new))}]
       ELSE MergeRoundNoDedup(Append(hits, Head(new)), ids \cup {identity_key(Head(new))}, Tail(new), c)

\* The dedup loop without its break at max_total_hits.
RECURSIVE MergeRoundNoCap(_, _, _, _)
MergeRoundNoCap(hits, ids, new, c) ==
  IF new = <<>> THEN [hits |-> hits, ids |-> ids]
  ELSE IF identity_key(Head(new)) \in ids THEN MergeRoundNoCap(hits, ids, Tail(new), c)
  ELSE MergeRoundNoCap(Append(hits, Head(new)), ids \cup {identity_key(Head(new))}, Tail(new), c)

\* Dedup loop at the end of a round: hits whose key is known are skipped,
\* the loop breaks once max_total_hits is reached.
RECURSIVE MergeRound(_, _, _, _)
MergeRound(hits, ids, new, c) ==
  IF new = <<>> THEN [hits |-> hits, ids |-> ids]
  ELSE IF identity_key(Head(new)) \in ids THEN MergeRound(hits, ids, Tail(new), c)
  ELSE IF Len(hits) + 1 >= c.max_total_hits
       THEN [hits |-> Append(hits, Head(new)), ids |-> ids \cup {identity_key(Head(new))}]
       ELSE MergeRound(Append(hits, Head(new)), ids \cup {identity_key(Head(new))}, Tail(new), c)

\* The break conditions without the min_hits_before_stop one.
LoopBreaksNoMin(n, c) == n >= c.max_total_hits

\* The two break conditions after a round.
LoopBreaks(n, c) == n >= c.max_total_hits \/ n >= c.min_hits_before_stop

DupCount(new, ids) == Cardinality({i \in 1..Len(new) : identity_key(new[i]) \in ids \/ \E j \in 1..(i - 1) : identity_key(new[j]) = identity_key(new[i])})

EndOfRound(s) ==
  LET m == MergeRound(s.all_hits, s.all_ids, s.round_hits, s.cfg)
      s2 == [s EXCEPT !.all_hits = m.hits, !.all_ids = m.ids, !.round_hits = <<>>, !.obs.enough = Len(m.hits) >= s.cfg.min_hits_before_stop, !.obs.loop_ended = LoopBreaks(Len(m.hits), s.cfg) \/ ~RoundInRange(s.round_index + 1, s.cfg), !.obs.found = Len(m.hits), !.obs.dups = @ + DupCount(s.round_hits, s.all_ids)]
  IN IF LoopBreaks(Len(m.hits), s.cfg) THEN AfterLoop(s2) ELSE NextRound(s2, s.round_index + 1)

\* ------------------------------------------------------------ search plans
\* Inner loop of _run_search_plan over the hits of one reply.
RECURSIVE PlanMerge(_, _, _)
PlanMerge(agg, hits, c) ==
  IF hits = <<>> THEN agg
  ELSE IF \E i \in 1..Len(agg) : identity_key(agg[i]) = identity_key(Head(hits)) THEN PlanMerge(agg, Tail(hits), c)
  ELSE IF Len(agg) + 1 >= c.max_hits_total THEN Append(agg, Head(hits))
  ELSE PlanMerge(Append(agg, Head(hits)), Tail(hits), c)

\* _run_search_plan without the _has_tool check.
NextPlanAnyTools(s) ==
  IF s.plans = <<>> THEN EndOfRound(s)
  ELSE [s EXCEPT !.plan = Head(s.plans), !.plans = Tail(s.plans), !.aggregated = <<>>, !.pc = "search", !.obs.searches = @ + 1]

\* _run_search_plan is entered for the next query list of the round; after
\* the last one the round ends.
NextPlan(s) ==
  IF s.plans = <<>> THEN EndOfRound(s)
  ELSE IF FULLTEXT_TOOL \notin s.tool_schemas THEN OnTransportError(s, "tool_unavailable")
  ELSE [s EXCEPT !.plan = Head(s.plans), !.plans = Tail(s.plans), !.aggregated = <<>>, !.pc = "search", !.obs.searches = @ + 1]

\* The break after a query without the target_sources test.
PlanEndsLast(agg, rest, c) == rest = <<>>

\* if len(aggregated) >= self.target_sources: break
PlanEnds(agg, rest, c) == Len(agg) >= c.target_sources \/ rest = <<>>

\* One reply to the search call of the plan's next query: an error is any
\* MCPTransportError of _call_mcp, else the raw hits.
OnSearchReply(s, reply) ==
  IF reply.error THEN OnTransportError(s, "connection")
  ELSE LET query == Head(s.plan)
           hits == [i \in 1..Len(reply.hits) |-> SearchHit(reply.hits[i], query)]
           agg == PlanMerge(s.aggregated, hits, s.cfg)
       IN IF PlanEnds(agg, Tail(s.plan), s.cfg)
          THEN NextPlan([s EXCEPT !.round_hits = @ \o Take(agg, s.cfg.max_hits_total), !.plan = <<>>, !.aggregated = <<>>])
          ELSE [s EXCEPT !.aggregated = agg, !.plan = Tail(@), !.obs.searches = @ + 1]

\* ------------------------------------------------------- keyword planning
max_search_keywords == 5

\* str.lower() and re.sub(r"[^\w...]+", " ", ...) on one word: the tokens
\* left of it.
CleanWord(w) ==
  CASE w = "LIN" -> <<"lin">>
    [] w = "LIN)" -> <<"lin">>
    [] w = "bus)" -> <<"bus">>
    [] w = "(im" -> <<"im">>
    [] w = "Kontext" -> <<"kontext">>
    [] w = "von:" -> <<"von">>
    [] OTHER -> <<w>>

RECURSIVE CleanedTokens(_)
CleanedTokens(text) == IF text = <<>> THEN <<>> ELSE CleanWord(Head(text)) \o CleanedTokens(Tail(text))

\* Heuristic path (use_llm_query_planning off): tokens[:max_kws], each a
\* keyword of one word.
HeuristicKeywords(text) ==
  LET tokens == CleanedTokens(text) IN
  Take([i \in 1..Len(tokens) |-> <<tokens[i]>>], max_search_keywords)

\* _run_llm on a reply: its non-blank lines, duplicates dropped, at most
\* max_kws of them.
RECURSIVE _run_llm(_, _)
_run_llm(lines, out) ==
  IF lines = <<>> THEN out
  ELSE LET out2 == IF Contains(out, Head(lines)) THEN out ELSE Append(out, Head(lines)) IN
       IF Len(out2) >= max_search_keywords THEN out2 ELSE _run_llm(Tail(lines), out2)

blocklist == {"can", "will", "may", "must", "be", "do", "have"}

\* Safeguard on the secondary keywords: a keyword of one word that is a
\* helper verb is dropped.
RECURSIVE cleaned_secondary(_)
cleaned_secondary(kws) ==
  IF kws = <<>> THEN <<>>
  ELSE IF Len(Head(kws)) = 1 /\ CleanWord(Head(kws)[1])[1] \in blocklist THEN cleaned_secondary(Tail(kws))
  ELSE <<Head(kws)>> \o cleaned_secondary(Tail(kws))

RECURSIVE AppendTokens(_, _)
AppendTokens(queries, tokens) ==
  IF tokens = <<>> THEN queries
  ELSE AppendTokens(IF Contains(queries, <<Head(tokens)>>) THEN queries ELSE Append(queries, <<Head(tokens)>>), Tail(tokens))

\* Queries of one language: a single keyword of several words is sent as a
\* phrase and then word by word, several keywords are sent as they are.
BuildQueries(kws) ==
  IF Len(kws) = 1
  THEN IF Len(kws[1]) > 1 THEN AppendTokens(<<kws[1]>>, kws[1]) ELSE <<kws[1]>>
  ELSE kws

\* Round 0 once the keywords are known, up to the first search call.
AfterKeywords(s, primary, secondary) ==
  LET prim == IF primary = <<>> /\ secondary = <<>> THEN <<s.effective_question>> ELSE primary
      primary_queries == BuildQueries(prim)
      secondary_queries == IF secondary # <<>> THEN BuildQueries(secondary) ELSE <<>>
      todo == (IF primary_queries # <<>> THEN <<primary_queries>> ELSE <<>>) \o (IF secondary_queries # <<>> THEN <<secondary_queries>> ELSE <<>>)
  IN NextPlan([s EXCEPT !.plans = todo, !.round_hits = <<>>, !.primary_kws = <<>>])

OnPrimaryKeywords(s, kws) ==
  IF s.cfg.second_keyword_language_enabled
  THEN [s EXCEPT !.primary_kws = kws, !.pc = "kw_secondary", !.obs.kw_chats = @ + 1]
  ELSE AfterKeywords(s, kws, <<>>)

\* _extract_keywords_multi up to its first chat call.
_extract_keywords_multi(s) ==
  IF ~s.cfg.use_llm_query_planning THEN AfterKeywords(s, HeuristicKeywords(s.effective_question), <<>>)
  ELSE [s EXCEPT !.pc = "kw_primary", !.obs.kw_chats = @ + 1]

\* ------------------------------------------------------ effective question
\* The last word of the prior question with the ")" of the f-string.
CloseParen(w) ==
  CASE w = "LIN" -> "LIN)"
    [] w = "bus" -> "bus)"
    [] OTHER -> w

\* The word test with < in place of <=.
_resolve_effective_questionStrict(last, base) ==
  IF last = <<>> THEN base
  ELSE IF Len(base) < FollowupWordLimit
       THEN base \o <<"(im", "Kontext", "von:">> \o SubSeq(last, 1, Len(last) - 1) \o <<CloseParen(last[Len(last)])>>
       ELSE base

\* base is the stripped question, last is self._last_question (<<>> when
\* None or empty).
_resolve_effective_question(last, base) ==
  IF last = <<>> THEN base
  ELSE IF Len(base) <= FollowupWordLimit
       THEN base \o <<"(im", "Kontext", "von:">> \o SubSeq(last, 1, Len(last) - 1) \o <<CloseParen(last[Len(last)])>>
       ELSE base

\* After tool discovery: effective question, then the first round.
AfterDiscovery(s) ==
  LET s1 == [s EXCEPT !.effective_question = _resolve_effective_question(s.last_question, s.question), !.all_hits = <<>>, !.all_ids = {}, !.round_index = 0]
  IN IF RoundInRange(0, s.cfg) THEN _extract_keywords_multi([s1 EXCEPT !.obs.rounds = @ + 1]) ELSE AfterLoop(s1)

\* _ensure_tools_cached without the check for an empty tool list.
OnListToolsNoCheck(s, reply) ==
  IF reply.error THEN OnTransportError(s, "connection")
  ELSE AfterDiscovery([s EXCEPT !.tool_schemas = reply.tools \ {""}])

\* _ensure_tools_cached on the list_tools reply: an error is any
\* MCPTransportError of _call_mcp, else the names of the tools listed.
OnListTools(s, reply) ==
  IF reply.error THEN OnTransportError(s, "connection")
  ELSE IF reply.tools = {} THEN OnTransportError(s, "no_tools")
  ELSE AfterDiscovery([s EXCEPT !.tool_schemas = reply.tools \ {""}])

\* ----------------------------------------------------------------- actions
\* answer_with_sources without the return on a question that is empty.
answer_with_sourcesAny(q) ==
  /\ pc = "idle"
  /\ LET s == [State EXCEPT !.question = Strip(q), !.result = NoResult, !.calls = @ + 1, !.obs = [NoObs EXCEPT !.pre_question = last_question, !.pre_hits = last_hits]]
     IN SetState(IF tool_schemas # {} THEN AfterDiscovery(s)
                 ELSE [s EXCEPT !.pc = "list_tools", !.obs.list_tools = @ + 1])

\* answer_with_sources(question) up to its first suspension point:
\* question = (question or "").strip(); if not question: return "", [].
answer_with_sources(q) ==
  /\ pc = "idle"
  /\ LET s == [State EXCEPT !.question = Strip(q), !.result = NoResult, !.calls = @ + 1, !.obs = [NoObs EXCEPT !.pre_question = last_question, !.pre_hits = last_hits]]
     IN SetState(IF Strip(q) = <<>> THEN Stop(s, Returned("", "", <<>>))
                 ELSE IF tool_schemas # {} THEN AfterDiscovery(s)
                 ELSE [s EXCEPT !.pc = "list_tools", !.obs.list_tools = @ + 1])

ListToolsReply(reply) ==
  /\ pc = "list_tools"
  /\ SetState([OnListTools(State, reply) EXCEPT !.obs.listed = IF reply.error THEN "error" ELSE IF reply.tools = {} THEN "empty" ELSE "tools", !.obs.rpc_error = IF reply.error THEN "list_tools" ELSE @, !.listed_ok = @ \/ (~reply.error /\ reply.tools # {})])

\* Reply of the chat provider to the primary keyword prompt; send_chat
\* raising leaves no keywords.
KwPrimaryReply(reply) ==
  /\ pc = "kw_primary"
  /\ SetState(OnPrimaryKeywords(State, IF reply.error THEN <<>> ELSE _run_llm(reply.lines, <<>>)))

KwSecondaryReply(reply) ==
  /\ pc = "kw_secondary"
  /\ SetState(AfterKeywords(State, primary_kws, cleaned_secondary(IF reply.error THEN <<>> ELSE _run_llm(reply.lines, <<>>))))

SearchReply(reply) ==
  /\ pc = "search"
  /\ SetState([OnSearchReply(State, reply) EXCEPT !.obs.rpc_error = IF reply.error THEN "search" ELSE @])

\* self._plan_followup_query(question, all_hits): RechercheAgent has no
\* such attribute, the lookup raises AttributeError, which is no
\* MCPTransportError and leaves answer_with_sources.
FollowupPlan ==
  /\ pc = "followup"
  /\ SetState(Stop(State, Raised("AttributeError")))

ExcerptReply(reply) ==
  /\ pc = "excerpt"
  /\ SetState([OnExcerptReply(State, reply) EXCEPT !.obs.excerpt_log = Append(@, [i |-> Len(enriched) + 1, reply |-> reply])])

\* _ask_llm(prompt): the provider's reply is returned verbatim; an
\* exception of send_chat is caught nowhere.
OnAnswer(s, ok) == IF ok THEN Stop(s, Returned("llm_text", "", s.enriched)) ELSE Stop(s, Raised("RuntimeError"))

AskLlmReply(ok) ==
  /\ pc = "ask_llm"
  /\ SetState(OnAnswer(State, ok))

\* The call has returned or raised; the window takes the next question
\* and starts a worker on the same agent.
send_message ==
  /\ pc = "done"
  /\ calls < MaxCalls
  /\ SetState([State EXCEPT !.pc = "idle"])

AgentInit ==
  /\ cfg \in Configs
  /\ \E session \in Sessions :
       /\ tool_schemas = session.tool_schemas
       /\ last_question = session.last_question
       /\ last_hits = session.last_hits
       /\ listed_ok = session.listed_ok
  /\ calls = 0
  /\ pc = "idle"
  /\ question = <<>>
  /\ effective_question = <<>>
  /\ round_index = 0
  /\ all_hits = <<>>
  /\ all_ids = {}
  /\ round_hits = <<>>
  /\ plans = <<>>
  /\ plan = <<>>
  /\ aggregated = <<>>
  /\ primary_kws = <<>>
  /\ enriched = <<>>
  /\ excerpt_count = 0
  /\ result = NoResult
  /\ obs = NoObs

AgentNext ==
  \/ \E q \in Questions : answer_with_sources(q)
  \/ \E reply \in ListToolsReplies : ListToolsReply(reply)
  \/ \E reply \in KwReplies(PrimaryLines) : KwPrimaryReply(reply)
  \/ \E reply \in KwReplies(SecondaryLines) : KwSecondaryReply(reply)
  \/ \E reply \in SearchReplies : SearchReply(reply)
  \/ FollowupPlan
  \/ \E reply \in ExcerptReplies : ExcerptReply(reply)
  \/ \E ok \in BOOLEAN : AskLlmReply(ok)

\* ------------------------------------------------------------- RPC server
\* Request ids: a str, an int, or no "id" member (kind "none").
IdStr(v) == [kind |-> "str", s |-> v, n |-> 0]
IdInt(v) == [kind |-> "int", s |-> "", n |-> v]
IdNone == [kind |-> "none", s |-> "", n |-> 0]
Ids == {IdStr("a"), IdStr(""), IdInt(0), IdInt(7), IdNone}

\* str() of an id.
PyStr(id) ==
  CASE id.kind = "str" -> id.s
    [] id.kind = "int" /\ id.n = 0 -> "0"
    [] id.kind = "int" /\ id.n = 7 -> "7"
    [] OTHER -> "None"

\* bool() of an id.
Truthy(id) == (id.kind = "str" /\ id.s # "") \/ (id.kind = "int" /\ id.n # 0)

\* request_id = str(payload.get("id") or "-")
request_id(id) == IF Truthy(id) THEN PyStr(id) ELSE "-"

\* Inbound messages: text that is no JSON, JSON that is no object, or a
\* request object.  name is the tool name of call_tool params ("" when
\* missing); params is "dict", or "list" for params that are a non-empty
\* JSON array.
Msg(kind, id, method, name, params) == [kind |-> kind, id |-> id, method |-> method, name |-> name, params |-> params]

NoMsg == Msg("none", IdNone, "", "", "dict")

Messages == {Msg("invalid_json", IdNone, "", "", "dict"), Msg("non_object", IdNone, "", "", "dict")} \cup {Msg("request", id, "list_tools", "", "dict") : id \in Ids} \cup {Msg("request", IdStr("a"), "call_tool", name, "dict") : name \in {"", "no_such_tool", FULLTEXT_TOOL, EXCERPT_TOOL}} \cup {Msg("request", IdStr("a"), "call_tool", FULLTEXT_TOOL, "list"), Msg("request", IdStr("a"), "resources/list", "", "dict")}

NoResponse == [id |-> "", kind |-> "none", code |-> "", body |-> ""]

make_error_response(rid, message, code) == [id |-> rid, kind |-> "error", code |-> code, body |-> message]

make_result_response(rid, res) == [id |-> rid, kind |-> "result", code |-> "", body |-> res]

Served(msg, tool, response) == [msg |-> msg, tool |-> tool, response |-> response]

\* The server's state as one record, and back.
ServerState == [tool_table |-> tool_table, srv_pc |-> srv_pc, inbox |-> inbox, current |-> current, served |-> served, received |-> received]

SetServerState(s) ==
  /\ tool_table' = s.tool_table
  /\ srv_pc' = s.srv_pc
  /\ inbox' = s.inbox
  /\ current' = s.current
  /\ served' = s.served
  /\ received' = s.received

\* await websocket.send(json.dumps(response)); the loop goes on.
Respond(s, msg, tool, response) == [s EXCEPT !.srv_pc = "idle", !.current = NoMsg, !.served = Append(@, Served(msg, tool, response))]

\* An exception leaves _handle_client: the handler ends without a response
\* and the connection is closed.
HandlerDies(s, msg) == [s EXCEPT !.srv_pc = "crashed", !.current = NoMsg, !.served = Append(@, Served(msg, "none", NoResponse))]

\* _call_tool without the has_tool check.
_call_toolNoLookup(s, msg) ==
  LET rid == request_id(msg.id) IN
  IF msg.params # "dict" THEN HandlerDies(s, msg)
  ELSE IF msg.name = "" THEN Respond(s, msg, "none", make_error_response(rid, "Missing tool name", "bad_request"))
  ELSE [s EXCEPT !.srv_pc = "in_tool", !.current = msg]

\* _call_tool up to the await of the tool.
_call_tool(s, msg) ==
  LET rid == request_id(msg.id) IN
  IF msg.params # "dict" THEN HandlerDies(s, msg)
  ELSE IF msg.name = "" THEN Respond(s, msg, "none", make_error_response(rid, "Missing tool name", "bad_request"))
  ELSE IF msg.name \notin s.tool_table THEN Respond(s, msg, "none", make_error_response(rid, "Unknown tool", "not_found"))
  ELSE [s EXCEPT !.srv_pc = "in_tool", !.current = msg]

\* One iteration of the loop of _handle_client, up to the await of a tool.
OnMessage(s, msg) ==
  IF msg.kind = "invalid_json" THEN Respond(s, msg, "none", make_error_response("-", "Invalid JSON", "internal_error"))
  ELSE IF msg.kind = "non_object" THEN HandlerDies(s, msg)
  ELSE IF msg.method = "list_tools" THEN Respond(s, msg, "none", make_result_response(request_id(msg.id), "tools"))
  ELSE IF msg.method = "call_tool" THEN _call_tool(s, msg)
  ELSE Respond(s, msg, "none", make_error_response(request_id(msg.id), "Unknown method", "unknown_method"))

\* The tool call without the except clause: a raising tool ends the handler.
OnToolDoneUncaught(s, outcome) ==
  LET rid == request_id(s.current.id) IN
  IF outcome = "raise" THEN [s EXCEPT !.srv_pc = "crashed", !.current = NoMsg, !.served = Append(@, Served(s.current, "raise", NoResponse))]
  ELSE Respond(s, s.current, "ok", make_result_response(rid, "content"))

\* The tool returns its blocks, or its body raises (except Exception).
OnToolDone(s, outcome) ==
  LET rid == request_id(s.current.id) IN
  IF outcome = "raise" THEN Respond(s, s.current, "raise", make_error_response(rid, "Tool failed", "internal_error"))
  ELSE Respond(s, s.current, "ok", make_result_response(rid, "content"))

\* The client sends a message on the connection.
Deliver(msg) ==
  /\ srv_pc \in {"idle", "in_tool"}
  /\ Len(received) < MaxMsgs
  /\ SetServerState([ServerState EXCEPT !.inbox = Append(@, msg), !.received = Append(@, msg)])

\* async for message in websocket: the next message is taken.
HandleMessage ==
  /\ srv_pc = "idle"
  /\ inbox # <<>>
  /\ SetServerState(OnMessage([ServerState EXCEPT !.inbox = Tail(@)], Head(inbox)))

ToolDone(outcome) ==
  /\ srv_pc = "in_tool"
  /\ SetServerState(OnToolDone(ServerState, outcome))

\* The client closes the connection: the loop of _handle_client ends.
Disconnect ==
  /\ srv_pc = "idle"
  /\ inbox = <<>>
  /\ SetServerState([ServerState EXCEPT !.srv_pc = "closed"])

ServerInit ==
  /\ tool_table = {FULLTEXT_TOOL, EXCERPT_TOOL}
  /\ srv_pc = "idle"
  /\ inbox = <<>>
  /\ current = NoMsg
  /\ served = <<>>
  /\ received = <<>>

ServerNext ==
  \/ \E msg \in Messages : Deliver(msg)
  \/ HandleMessage
  \/ \E outcome \in {"ok", "raise"} : ToolDone(outcome)
  \/ Disconnect

serverVars == <<tool_table, srv_pc, inbox, current, served, received>>

\* ----------------------------------------------------- several connections
\* websockets.serve runs one _handle_client task per connection; all of
\* them use the one tool manager of the server.
VARIABLES
  conns               \* per connection: position of its handler, messages, responses

connVars == <<conns>>

Conns == {"c1", "c2"}

NewConn == [srv_pc |-> "idle", inbox |-> <<>>, current |-> NoMsg, served |-> <<>>, received |-> <<>>]

\* The state one handler works on: its connection and the tool table.
ConnState(c) == [tool_table |-> tool_table, srv_pc |-> conns[c].srv_pc, inbox |-> conns[c].inbox, current |-> conns[c].current, served |-> conns[c].served, received |-> conns[c].received]

ConnOf(s) == [srv_pc |-> s.srv_pc, inbox |-> s.inbox, current |-> s.current, served |-> s.served, received |-> s.received]

\* A handler that ends by an exception takes the other handlers with it.
SetConnShared(c, s) ==
  /\ conns' = [d \in Conns |-> IF d = c THEN ConnOf(s) ELSE IF s.srv_pc = "crashed" THEN [conns[d] EXCEPT !.srv_pc = "crashed"] ELSE conns[d]]
  /\ tool_table' = s.tool_table
  /\ UNCHANGED <<srv_pc, inbox, current, served, received>>

\* What a step of the handler of connection c changes.
SetConn(c, s) ==
  /\ conns' = [conns EXCEPT ![c] = ConnOf(s)]
  /\ tool_table' = s.tool_table
  /\ UNCHANGED <<srv_pc, inbox, current, served, received>>

\* Messages sent on the connections: no object, list_tools, a tool call,
\* an unknown method.
ConnMessages == {Msg("non_object", IdNone, "", "", "dict"), Msg("request", IdStr("a"), "list_tools", "", "dict"), Msg("request", IdStr("a"), "call_tool", FULLTEXT_TOOL, "dict"), Msg("request", IdStr("a"), "resources/list", "", "dict")}

ConnDeliver(c, msg) ==
  /\ conns[c].srv_pc \in {"idle", "in_tool"}
  /\ Len(conns[c].received) < MaxConnMsgs
  /\ SetConn(c, [ConnState(c) EXCEPT !.inbox = Append(@, msg), !.received = Append(@, msg)])

ConnHandle(c) ==
  /\ conns[c].srv_pc = "idle"
  /\ conns[c].inbox # <<>>
  /\ SetConn(c, OnMessage([ConnState(c) EXCEPT !.inbox = Tail(@)], Head(conns[c].inbox)))

ConnToolDone(c, outcome) ==
  /\ conns[c].srv_pc = "in_tool"
  /\ SetConn(c, OnToolDone(ConnState(c), outcome))

ConnDisconnect(c) ==
  /\ conns[c].srv_pc = "idle"
  /\ conns[c].inbox = <<>>
  /\ SetConn(c, [ConnState(c) EXCEPT !.srv_pc = "closed"])

ConnsInit == conns = [c \in Conns |-> NewConn]

ConnsNext ==
  \E c \in Conns :
    \/ \E msg \in ConnMessages : ConnDeliver(c, msg)
    \/ ConnHandle(c)
    \/ \E outcome \in {"ok", "raise"} : ConnToolDone(c, outcome)
    \/ ConnDisconnect(c)

\* ------------------------------------------------ functions on their own
\* A call of one function: fn names it; last and base are the arguments of
\* _resolve_effective_question, transport and body what the connection
\* does to a _call_mcp request, tokens the raw query of
\* _parse_boolean_query split at blanks, commas and semicolons.
Call(fn, last, base, transport, body, tokens) == [fn |-> fn, last |-> last, base |-> base, transport |-> transport, body |-> body, tokens |-> tokens, store |-> [present |-> FALSE, docs |-> {}], limit |-> 0, isbn |-> <<>>, comments |-> <<>>, title |-> <<>>, raw |-> <<>>, window |-> 0, items |-> <<>>, shape |-> "", queries |-> <<>>, replies |-> <<>>, tools |-> {}, target_sources |-> 0, max_hits_total |-> 0, scope_type |-> "", path |-> "", headers |-> <<>>, secret |-> <<>>]

NoCall == Call("none", <<>>, <<>>, "", "", <<>>)

\* What the function returned (text, groups), or the exception it raised
\* (exc, message).
NoRet == [done |-> FALSE, text |-> <<>>, exc |-> "", message |-> "", body |-> "", groups |-> <<>>, hits |-> <<>>, normalized |-> <<>>, sent |-> <<>>, status |-> 0, inner |-> FALSE]

\* Prior questions of a session: none, or one of 1 or 7 words.
LastQuestions == {<<>>, QShort, QLong, <<"bus">>}

\* Stripped questions of 0 to MaxWords words.
BaseQuestions == {[i \in 1..n |-> "was"] : n \in 0..MaxWords} \cup {QShort, QLong}

ResolveCalls == {Call("resolve", last, base, "", "", <<>>) : last \in LastQuestions, base \in BaseQuestions}

ResolveQuestion ==
  /\ call.fn = "resolve"
  /\ ~ret.done
  /\ ret' = [NoRet EXCEPT !.done = TRUE, !.text = _resolve_effective_question(call.last, call.base)]
  /\ UNCHANGED call

\* ---------------------------------------------------------- RPC client
\* What happens to the request: the websockets package is missing, an
\* event loop is already running in the thread, connect, send or recv
\* fails, or the response text arrives.
Transports == {"no_websockets", "loop_running", "connect_failed", "received"}

\* The response text: no JSON, an object with a result, or an object with
\* an error member that is an object with or without a message, a string,
\* or null.
Bodies == {"not_json", "result", "error_message", "error_no_message", "error_string", "error_null"}

RpcRaised(exc, message) == [NoRet EXCEPT !.done = TRUE, !.exc = exc, !.message = message]

RpcReturned(body) == [NoRet EXCEPT !.done = TRUE, !.body = body]

\* _do_call: connection, send and recv failures and unreadable JSON are
\* raised as MCPTransportError.
_do_call(transport, body) ==
  IF transport = "connect_failed" THEN RpcRaised("MCPTransportError", "Verbindung fehlgeschlagen")
  ELSE IF body = "not_json" THEN RpcRaised("MCPTransportError", "Antwort nicht lesbar")
  ELSE RpcReturned(body)

\* asyncio.run(_do_call()) under except RuntimeError: MCPTransportError is
\* a RuntimeError, so what _do_call raises is raised again with the
\* event-loop message.
run_do_call(transport, body) ==
  LET r == IF transport = "loop_running" THEN RpcRaised("RuntimeError", "") ELSE _do_call(transport, body)
  IN IF r.exc \in {"RuntimeError", "MCPTransportError"} THEN RpcRaised("MCPTransportError", "Eventloop-Konflikt") ELSE r

\* if "error" in response: response["error"].get("message", ...) needs a
\* dict; on a string or None the attribute lookup raises AttributeError.
_call_mcp(transport, body) ==
  IF transport = "no_websockets" THEN RpcRaised("MCPTransportError", "websockets nicht verfuegbar")
  ELSE LET r == run_do_call(transport, body) IN
       IF r.exc # "" THEN r
       ELSE IF r.body = "error_message" THEN RpcRaised("MCPTransportError", "server message")
       ELSE IF r.body = "error_no_message" THEN RpcRaised("MCPTransportError", "Unbekannter MCP-Fehler")
       ELSE IF r.body \in {"error_string", "error_null"} THEN RpcRaised("AttributeError", "")
       ELSE r

RpcCalls == {Call("rpc", <<>>, <<>>, transport, body, <<>>) : transport \in Transports, body \in Bodies}

CallMcp ==
  /\ call.fn = "rpc"
  /\ ~ret.done
  /\ ret' = _call_mcp(call.transport, call.body)
  /\ UNCHANGED call

\* ------------------------------------------------- boolean query parser
\* Tokens of a raw query: keywords and operators in several letter cases.
Tokens == {"a", "b", "AND", "and", "OR", "Or"}

\* tok.upper()
Upper(tok) ==
  CASE tok \in {"AND", "and"} -> "AND"
    [] tok \in {"OR", "Or"} -> "OR"
    [] tok = "a" -> "A"
    [] tok = "b" -> "B"
    [] OTHER -> tok

\* tokens: operators are replaced by their upper-case form.
Normalised(toks) == [i \in 1..Len(toks) |-> IF Upper(toks[i]) \in {"AND", "OR"} THEN Upper(toks[i]) ELSE toks[i]]

\* groups with tok appended to its last group (current.append(tok)).
AppendToCurrent(groups, tok) == [groups EXCEPT ![Len(groups)] = Append(@, tok)]

\* The loop without last_op = "AND" after a keyword.
RECURSIVE ParseLoopNoReset(_, _, _)
ParseLoopNoReset(toks, groups, last_op) ==
  IF toks = <<>> THEN groups
  ELSE LET tok == Head(toks) IN
       IF tok = "AND" THEN ParseLoopNoReset(Tail(toks), groups, "AND")
       ELSE IF tok = "OR" THEN ParseLoopNoReset(Tail(toks), groups, "OR")
       ELSE IF last_op = "OR" /\ groups[Len(groups)] # <<>> THEN ParseLoopNoReset(Tail(toks), Append(groups, <<tok>>), last_op)
       ELSE ParseLoopNoReset(Tail(toks), AppendToCurrent(groups, tok), last_op)

\* for tok in tokens: current is the last group of groups.
RECURSIVE ParseLoop(_, _, _)
ParseLoop(toks, groups, last_op) ==
  IF toks = <<>> THEN groups
  ELSE LET tok == Head(toks) IN
       IF tok = "AND" THEN ParseLoop(Tail(toks), groups, "AND")
       ELSE IF tok = "OR" THEN ParseLoop(Tail(toks), groups, "OR")
       ELSE IF last_op = "OR" /\ groups[Len(groups)] # <<>> THEN ParseLoop(Tail(toks), Append(groups, <<tok>>), "AND")
       ELSE ParseLoop(Tail(toks), AppendToCurrent(groups, tok), "AND")

\* groups = [g for g in groups if g]
RECURSIVE NonEmptyGroups(_)
NonEmptyGroups(groups) ==
  IF groups = <<>> THEN <<>>
  ELSE (IF Head(groups) # <<>> THEN <<Head(groups)>> ELSE <<>>) \o NonEmptyGroups(Tail(groups))

_parse_boolean_query(toks) ==
  IF toks = <<>> THEN <<>>
  ELSE NonEmptyGroups(ParseLoop(Normalised(toks), <<<<>>>>, "AND"))

ParseCalls == {Call("parse", <<>>, <<>>, "", "", toks) : toks \in SeqsUpTo(Tokens, MaxTokens)}

ParseQuery ==
  /\ call.fn = "parse"
  /\ ~ret.done
  /\ ret' = [NoRet EXCEPT !.done = TRUE, !.groups = _parse_boolean_query(call.tokens)]
  /\ UNCHANGED call

\* ------------------------------------------------------- metadata store
\* Text is a sequence of characters.  A book row: books.id, books.title,
\* books.isbn (<<>> for NULL), the val of its isbn row in identifiers
\* (<<>> when it has none) and its comments text (<<>> when it has none).
Book(id, title, isbn, ident, comments) == [id |-> id, title |-> title, isbn |-> isbn, ident |-> ident, comments |-> comments]

Book1 == Book(1, <<"a", "B">>, <<>>, <<"9">>, <<>>)
Book2 == Book(2, <<"Ä">>, <<"9", "-", "X">>, <<>>, <<"b">>)
Book3 == Book(3, <<"c">>, <<>>, <<>>, <<"a", "_">>)

\* metadata.db: absent, or present with some of the books.
Stores == {[present |-> FALSE, docs |-> {}]} \cup {[present |-> TRUE, docs |-> d] : d \in SUBSET {Book1, Book2, Book3}}

\* The characters of a keyword token.
Chars(tok) ==
  CASE tok = "a_" -> <<"a", "_">>
    [] OTHER -> <<tok>>

\* SQLite lower() and the case folding of LIKE: ASCII letters only.
SqlLower(ch) ==
  CASE ch = "B" -> "b"
    [] ch = "X" -> "x"
    [] OTHER -> ch

\* lower(text) LIKE lower('%' || term || '%'): "_" in term stands for any
\* one character.
Like(text, term) ==
  \E off \in 0..(Len(text) - Len(term)) : \A i \in 1..Len(term) : term[i] = "_" \/ SqlLower(term[i]) = SqlLower(text[off + i])

\* base_clause: title, isbn or comments LIKE the term.
base_clause(book, term) == Like(book.title, term) \/ Like(book.isbn, term) \/ Like(book.comments, term)

\* where_sql: OR over the groups, AND over the terms of a group.
where_sql(book, groups) == \E g \in 1..Len(groups) : \A k \in 1..Len(groups[g]) : base_clause(book, Chars(groups[g][k]))

\* ORDER BY b.id: the ids of a set of rows, ascending.
RECURSIVE OrderById(_)
OrderById(rows) ==
  IF rows = {} THEN <<>>
  ELSE LET first == CHOOSE r \in rows : \A o \in rows : r.id <= o.id
       IN <<first.id>> \o OrderById(rows \ {first})

\* The query without LIMIT.
SelectNoLimit(store, groups, limit) == OrderById({b \in store.docs : where_sql(b, groups)})

\* SELECT ... WHERE where_sql ORDER BY b.id LIMIT ?
Select(store, groups, limit) == Take(OrderById({b \in store.docs : where_sql(b, groups)}), limit)

Found(hits) == [NoRet EXCEPT !.done = TRUE, !.hits = hits]

\* search_fulltext with a query of no groups run as a query without WHERE.
search_fulltextAll(store, toks, limit) ==
  IF toks = <<>> THEN Found(<<>>)
  ELSE LET groups == _parse_boolean_query(toks) IN
       IF ~store.present THEN RpcRaised("FileNotFoundError", "metadata.db wurde nicht gefunden")
       ELSE IF groups = <<>> THEN Found(Take(OrderById(store.docs), limit))
       ELSE Found(Select(store, groups, limit))

\* search_fulltext: an empty query and a query without groups return []
\* before the store is opened; _connect raises FileNotFoundError when
\* metadata.db does not exist.
search_fulltext(store, toks, limit) ==
  IF toks = <<>> THEN Found(<<>>)
  ELSE LET groups == _parse_boolean_query(toks) IN
       IF groups = <<>> THEN Found(<<>>)
       ELSE IF ~store.present THEN RpcRaised("FileNotFoundError", "metadata.db wurde nicht gefunden")
       ELSE Found(Select(store, groups, limit))

\* The tool with a failing search answered by an empty hit list.
calibre_fulltext_searchSwallow(store, toks, limit) ==
  LET r == search_fulltext(store, toks, limit) IN
  IF r.exc # "" THEN Found(<<>>) ELSE r

\* The tool calibre_fulltext_search: every exception of the search is
\* raised again as RuntimeError naming its type.
calibre_fulltext_search(store, toks, limit) ==
  LET r == search_fulltext(store, toks, limit) IN
  IF r.exc # "" THEN RpcRaised("RuntimeError", r.exc) ELSE r

\* Tokens of a search query: keywords and operators.
SearchTokens == {"b", "a_", "ä", "AND", "or"}

SearchCalls == {[Call("search", <<>>, <<>>, "", "", toks) EXCEPT !.store = store, !.limit = limit] : toks \in SeqsUpTo(SearchTokens, MaxQuery), store \in Stores, limit \in 1..MaxLimit}

SearchTool ==
  /\ call.fn = "search"
  /\ ~ret.done
  /\ ret' = calibre_fulltext_search(call.store, call.tokens, call.limit)
  /\ UNCHANGED call

\* ---------------------------------------------------- identifier lookup
\* ch.isdigit()
IsDigit(ch) == ch \in {"0", "1", "2", "3", "4", "5", "6", "7", "8", "9"}

\* The characters get_book_by_isbn keeps: digits and, in either letter
\* case, X; each is kept as it was typed.
RECURSIVE Normalize(_)
Normalize(isbn) ==
  IF isbn = <<>> THEN <<>>
  ELSE (IF IsDigit(Head(isbn)) \/ Head(isbn) \in {"x", "X"} THEN <<Head(isbn)>> ELSE <<>>) \o Normalize(Tail(isbn))

\* REPLACE(REPLACE(val, '-', ''), ' ', '')
RECURSIVE StripSeparators(_)
StripSeparators(val) ==
  IF val = <<>> THEN <<>>
  ELSE (IF Head(val) \in {"-", " "} THEN <<>> ELSE <<Head(val)>>) \o StripSeparators(Tail(val))

\* The row of get_book_by_isbn: none, or the book found.
NoRow == [found |-> FALSE, exc |-> "", book |-> Book(0, <<>>, <<>>, <<>>, <<>>), normalized |-> <<>>]

\* get_book_by_isbn: None for an identifier without digit or X, before
\* the store is opened; then the identifiers table, then books.isbn.
get_book_by_isbn(store, isbn) ==
  LET normalized == Normalize(isbn)
      by_ident == {b \in store.docs : b.ident # <<>> /\ StripSeparators(b.ident) = normalized}
      by_isbn == {b \in store.docs : StripSeparators(b.isbn) = normalized}
  IN IF normalized = <<>> THEN NoRow
     ELSE IF ~store.present THEN [NoRow EXCEPT !.exc = "FileNotFoundError", !.normalized = normalized]
     ELSE IF by_ident # {} THEN [NoRow EXCEPT !.found = TRUE, !.book = CHOOSE b \in by_ident : TRUE, !.normalized = normalized]
     ELSE IF by_isbn # {} THEN [NoRow EXCEPT !.found = TRUE, !.book = CHOOSE b \in by_isbn : TRUE, !.normalized = normalized]
     ELSE [NoRow EXCEPT !.normalized = normalized]

\* get_excerpt_by_isbn: the comments, else the title, of the book found;
\* None without a book or without text.
get_excerpt_by_isbn(store, isbn) ==
  LET row == get_book_by_isbn(store, isbn)
      text_source == IF row.book.comments # <<>> THEN row.book.comments ELSE row.book.title
  IN [row |-> row, text |-> IF row.found THEN text_source ELSE <<>>]

\* The tool with a failing lookup treated as "nothing found".
calibre_get_excerptSwallow(store, isbn) ==
  LET e == get_excerpt_by_isbn(store, isbn)
      r == [NoRet EXCEPT !.done = TRUE, !.normalized = e.row.normalized]
  IN IF e.row.exc # "" \/ e.text = <<>> THEN [r EXCEPT !.exc = "RuntimeError", !.message = "No excerpt found"]
     ELSE [r EXCEPT !.hits = <<e.row.book.id>>, !.text = e.text]

\* The tool calibre_get_excerpt: an exception of the lookup is raised
\* again as RuntimeError naming its type, no excerpt as RuntimeError
\* "No excerpt found for given ISBN".
calibre_get_excerpt(store, isbn) ==
  LET e == get_excerpt_by_isbn(store, isbn)
      r == [NoRet EXCEPT !.done = TRUE, !.normalized = e.row.normalized]
  IN IF e.row.exc # "" THEN [r EXCEPT !.exc = "RuntimeError", !.message = e.row.exc]
     ELSE IF e.text = <<>> THEN [r EXCEPT !.exc = "RuntimeError", !.message = "No excerpt found"]
     ELSE [r EXCEPT !.hits = <<e.row.book.id>>, !.text = e.text]

\* Identifiers of an excerpt call: up to MaxIsbn characters, and the
\* hyphenated ISBN-13 of the worked example.
IsbnChars == {"9", "-", "x", "X", "a"}

Isbn13 == <<"9", "7", "8", "-", "3", "-", "4", "4", "6", "-", "4", "2", "9", "3", "3", "-", "8">>

ExcerptCalls == {[Call("excerpt", <<>>, <<>>, "", "", <<>>) EXCEPT !.store = store, !.isbn = isbn] : isbn \in SeqsUpTo(IsbnChars, MaxIsbn) \cup {Isbn13}, store \in Stores}

ExcerptTool ==
  /\ call.fn = "excerpt"
  /\ ~ret.done
  /\ ret' = calibre_get_excerpt(call.store, call.isbn)
  /\ UNCHANGED call

\* ----------------------------------------------------------------- snippet
\* str.lower()
PyLower(text) == [i \in 1..Len(text) |-> IF text[i] = "A" THEN "a" ELSE IF text[i] = "T" THEN "t" ELSE text[i]]

\* text.find(query): the 0-based index of the first occurrence, or -1.
Find(text, query) ==
  LET at == {i \in 0..(Len(text) - Len(query)) : SubSeq(text, i + 1, i + Len(query)) = query} IN
  IF at = {} THEN -1 ELSE CHOOSE i \in at : \A j \in at : i <= j

\* text[start:end] for 0 <= start
Slice(text, start, end) == SubSeq(text, start + 1, IF end < Len(text) THEN end ELSE Len(text))

\* _build_snippet: a window around the first occurrence of the whole
\* query, else the first window characters; "" for a blank text.
_build_snippet(text, query, window) ==
  LET cleaned == Strip(text)
      idx == Find(PyLower(cleaned), PyLower(query))
      begin == IF idx - (window \div 2) > 0 THEN idx - (window \div 2) ELSE 0
  IN IF cleaned = <<>> THEN <<>>
     ELSE IF idx < 0 THEN Slice(cleaned, 0, window)
     ELSE Slice(cleaned, begin, begin + window)

\* search_fulltext, per row: the snippet of the comments, or the title
\* when that is empty. search_fulltext leaves window at its default.
HitSnippet(comments, title, raw, window) ==
  LET snippet == _build_snippet(comments, raw, window) IN
  IF snippet = <<>> THEN title ELSE snippet

\* Rows and queries of a snippet: comments with blanks, a title longer
\* than the window, and stripped queries of one or two keywords.
CommentChars == {"a", "c", " "}

RawChars == {"A", "b", " "}

Titles == {<<>>, <<"T", "T", "T">>}

SnippetCalls == {[Call("snippet", <<>>, <<>>, "", "", <<>>) EXCEPT !.comments = x[1], !.raw = x[2], !.title = x[3], !.window = x[4]] : x \in SeqsUpTo(CommentChars, MaxText) \X {r \in SeqsUpTo(RawChars, MaxRaw) : r # <<>> /\ Strip(r) = r} \X Titles \X (2..MaxWindow)}

BuildSnippet ==
  /\ call.fn = "snippet"
  /\ ~ret.done
  /\ ret' = [NoRet EXCEPT !.done = TRUE, !.text = HitSnippet(call.comments, call.title, call.raw, call.window)]
  /\ UNCHANGED call

\* ------------------------------------------------------ heuristic planner
\* Questions for the heuristic path: words with upper case, punctuation,
\* two letters, an article; and the questions of the resolver, the longest
\* of more words than max_search_keywords.
PlanWords == {"LIN", "(im", "der", "bus"}

PlanCalls == {Call("heuristic", <<>>, base, "", "", <<>>) : base \in SeqsUpTo(PlanWords, MaxPlanWords) \cup BaseQuestions}

\* _extract_keywords_multi with use_llm_query_planning off: the primary
\* keywords (groups), no secondary ones (hits).
PlanHeuristic ==
  /\ call.fn = "heuristic"
  /\ ~ret.done
  /\ ret' = [NoRet EXCEPT !.done = TRUE, !.groups = IF call.base = <<>> THEN <<>> ELSE HeuristicKeywords(call.base), !.hits = <<>>]
  /\ UNCHANGED call

\* --------------------------------------------------- hits of a search reply
\* An element of a "hits" list: a JSON object with the fields of a hit,
\* or something that is no object (a string).
Item(raw) == [kind |-> "dict", book_id |-> raw.book_id, isbn |-> raw.isbn]

ItemStr == [kind |-> "str", book_id |-> 0, isbn |-> NoIsbn]

HitItems == {Item(raw) : raw \in RawHits} \cup {ItemStr}

\* JSON text as a sequence of tokens.
Tok(t, item) == [t |-> t, item |-> item]

\* The serialisation of {"hits": [...]}
dumps(items) == <<Tok("{\"hits\":[", ItemStr)>> \o [i \in 1..Len(items) |-> Tok("value", items[i])] \o <<Tok("]}", ItemStr)>>

\* json.loads, and isinstance(parsed, dict) and
\* isinstance(parsed.get("hits"), list)
loads(text) ==
  IF Len(text) >= 2 /\ text[1].t = "{\"hits\":[" /\ text[Len(text)].t = "]}" /\ \A i \in 2..(Len(text) - 1) : text[i].t = "value"
  THEN [ok |-> TRUE, hits |-> [i \in 1..(Len(text) - 2) |-> text[i + 1].item]]
  ELSE [ok |-> FALSE, hits |-> <<>>]

\* A content block.
Block(type, text) == [type |-> type, text |-> text]

\* The result of a search call as the client receives it.
Result(has_hits, hits, has_content, content) == [has_hits |-> has_hits, hits |-> hits, has_content |-> has_content, content |-> content]

\* MCPWebSocketServer._call_tool: the tool's output, which FastMCP hands
\* over as one text block holding its JSON, under "content".
ServerResult(items) == Result(FALSE, <<>>, TRUE, <<Block("text", dumps(items))>>)

\* The same hits in the shapes a result can have: directly under "hits",
\* as the server sends them, one text block per hit, and between a text
\* block that is no JSON and a block that is no text.
Shapes == {"direct", "server", "blocks", "noise"}

Shaped(items, shape) ==
  CASE shape = "direct" -> Result(TRUE, items, FALSE, <<>>)
    [] shape = "server" -> ServerResult(items)
    [] shape = "blocks" -> Result(FALSE, <<>>, TRUE, [i \in 1..Len(items) |-> Block("text", dumps(<<items[i]>>))])
    [] OTHER -> Result(FALSE, <<>>, TRUE, <<Block("text", <<Tok("log", ItemStr)>>), Block("text", dumps(items)), Block("image", <<>>)>>)

RECURSIVE Dicts(_)
Dicts(items) ==
  IF items = <<>> THEN <<>>
  ELSE (IF Head(items).kind = "dict" THEN <<Head(items)>> ELSE <<>>) \o Dicts(Tail(items))

\* _extract_hits_from_content reading the first block only.
ExtractLoopFirst(content) ==
  IF content = <<>> THEN <<>>
  ELSE IF Head(content).type = "text" /\ loads(Head(content).text).ok THEN Dicts(loads(Head(content).text).hits) ELSE <<>>

\* The loop of _extract_hits_from_content: the objects of the "hits"
\* list of every text block that parses; a block that is no text has
\* neither "hits" nor "value" here and is passed over.
RECURSIVE ExtractLoop(_)
ExtractLoop(content) ==
  IF content = <<>> THEN <<>>
  ELSE (IF Head(content).type = "text" /\ loads(Head(content).text).ok THEN Dicts(loads(Head(content).text).hits) ELSE <<>>) \o ExtractLoop(Tail(content))

_extract_hits_from_content(content) == ExtractLoop(content)

\* _run_fulltext_search on the result of the call: result["hits"], else
\* the hits of result["content"]; one SearchHit per object.
_run_fulltext_search(reply, query) ==
  LET raw_hits == IF reply.has_hits THEN reply.hits
                  ELSE IF reply.has_content THEN _extract_hits_from_content(reply.content)
                  ELSE <<>>
      dicts == Dicts(raw_hits)
  IN [i \in 1..Len(dicts) |-> SearchHit(dicts[i], query)]

HitsCalls == {[Call("hits", <<>>, <<>>, "", "", <<>>) EXCEPT !.items = x[1], !.shape = x[2]] : x \in SeqsUpTo(HitItems, MaxReply) \X Shapes}

ExtractHits ==
  /\ call.fn = "hits"
  /\ ~ret.done
  /\ ret' = [NoRet EXCEPT !.done = TRUE, !.hits = _run_fulltext_search(Shaped(call.items, call.shape), P1)]
  /\ UNCHANGED call

\* -------------------------------------------------- one search plan alone
\* for query in queries: the queries sent so far (sent), the replies still
\* to come, one per query, and the hits aggregated so far.
RECURSIVE PlanLoop(_, _, _, _, _)
PlanLoop(queries, replies, agg, sent, c) ==
  IF queries = <<>> THEN [sent |-> sent, exc |-> "", hits |-> Take(agg, c.max_hits_total)]
  ELSE IF Head(replies).error THEN [sent |-> Append(sent, Head(queries)), exc |-> "MCPTransportError", hits |-> <<>>]
  ELSE LET hits == [i \in 1..Len(Head(replies).hits) |-> SearchHit(Head(replies).hits[i], Head(queries))]
           agg2 == PlanMerge(agg, hits, c)
       IN IF PlanEnds(agg2, Tail(queries), c)
          THEN [sent |-> Append(sent, Head(queries)), exc |-> "", hits |-> Take(agg2, c.max_hits_total)]
          ELSE PlanLoop(Tail(queries), Tail(replies), agg2, Append(sent, Head(queries)), c)

\* _run_search_plan(queries) with the tool cache and the preferences of
\* the agent, the server answering the k-th call by replies[k].
_run_search_plan(queries, replies, tools, c) ==
  IF FULLTEXT_TOOL \notin tools THEN [sent |-> <<>>, exc |-> "MCPTransportError", hits |-> <<>>]
  ELSE PlanLoop(queries, replies, <<>>, <<>>, c)

\* Query lists of a plan, and the replies of the server: a failure, or up
\* to MaxReply hits out of two books.
PlanQueries == {<<>>, <<P1>>, <<P1, P2>>, <<P1, P2, P12>>}

PlanReplies == {[error |-> TRUE, hits |-> <<>>]} \cup {[error |-> FALSE, hits |-> h] : h \in SeqsUpTo({[book_id |-> 1, isbn |-> "i1"], [book_id |-> 2, isbn |-> "i2"]}, MaxReply)}

SearchPlanCalls == {[Call("plan", <<>>, <<>>, "", "", <<>>) EXCEPT !.queries = x[1], !.replies = x[2], !.tools = x[3], !.target_sources = x[4], !.max_hits_total = x[5]] : x \in {y \in PlanQueries \X SeqsUpTo(PlanReplies, 3) \X {{FULLTEXT_TOOL, EXCERPT_TOOL}, {EXCERPT_TOOL}} \X (1..MaxTarget) \X (1..MaxTarget) : Len(y[2]) = Len(y[1])}}

RunSearchPlan ==
  /\ call.fn = "plan"
  /\ ~ret.done
  /\ LET r == _run_search_plan(call.queries, call.replies, call.tools, [target_sources |-> call.target_sources, max_hits_total |-> call.max_hits_total])
     IN ret' = [NoRet EXCEPT !.done = TRUE, !.sent = r.sent, !.exc = r.exc, !.hits = r.hits]
  /\ UNCHANGED call

\* ------------------------------------------------- bearer-token middleware
\* Text of a header value is a sequence of pieces: the scheme word, a
\* blank, or a character of a token.
\* k.decode("latin-1").lower() on a header name.
LowerName(name) == IF name = "Authorization" THEN "authorization" ELSE name

\* headers.get(key, ""): the dict comprehension keeps the last value of
\* a name.
HeadersGet(headers, key) ==
  LET at == {i \in 1..Len(headers) : LowerName(headers[i][1]) = key} IN
  IF at = {} THEN <<>> ELSE headers[CHOOSE i \in at : \A j \in at : j <= i][2]

\* self._expected = "Bearer " + (expected_token or "")
Expected(expected_token) == <<"Bearer", " ">> \o expected_token

\* The outcome of one __call__: the status and body sent by the
\* middleware (status 0: nothing sent by it), and whether the inner
\* application was called.
Outcome(status, body, inner) == [status |-> status, body |-> body, inner |-> inner]

\* The middleware with a test of the start of the header only.
BearerAuthASGIMiddlewarePrefix(scope_type, path, headers, expected_token) ==
  LET auth == HeadersGet(headers, "authorization") IN
  IF scope_type # "http" THEN Outcome(0, "", TRUE)
  ELSE IF path = "/health" THEN Outcome(200, "ok", FALSE)
  ELSE IF Take(auth, Len(Expected(expected_token))) # Expected(expected_token) THEN Outcome(401, "Unauthorized", FALSE)
  ELSE Outcome(0, "", TRUE)

\* BearerAuthASGIMiddleware.__call__(scope, receive, send)
BearerAuthASGIMiddleware(scope_type, path, headers, expected_token) ==
  LET auth == HeadersGet(headers, "authorization") IN
  IF scope_type # "http" THEN Outcome(0, "", TRUE)
  ELSE IF path = "/health" THEN Outcome(200, "ok", FALSE)
  ELSE IF auth # Expected(expected_token) THEN Outcome(401, "Unauthorized", FALSE)
  ELSE Outcome(0, "", TRUE)

\* Header names and values of a request, the paths and the shared
\* secrets.
HeaderNames == {"authorization", "Authorization", "x-api-key"}

HeaderValues == {<<"Bearer", " ", "s">>, <<"bearer", " ", "s">>, <<"Bearer", " ", "s", " ">>, <<"Bearer", " ", "x">>, <<"Bearer", " ">>, <<"Bearer", " ", "s", "x">>}

Paths == {"/health", "/mcp", "/health/"}

Secrets == {<<"s">>, <<"s", "x">>}

AuthCalls == {[Call("auth", <<>>, <<>>, "", "", <<>>) EXCEPT !.scope_type = x[1], !.path = x[2], !.headers = x[3], !.secret = x[4]] : x \in {"http", "websocket"} \X Paths \X SeqsUpTo(HeaderNames \X HeaderValues, MaxHeaders) \X Secrets}

Authenticate ==
  /\ call.fn = "auth"
  /\ ~ret.done
  /\ LET r == BearerAuthASGIMiddleware(call.scope_type, call.path, call.headers, call.secret)
     IN ret' = [NoRet EXCEPT !.done = TRUE, !.status = r.status, !.body = r.body, !.inner = r.inner]
  /\ UNCHANGED call

funVars == <<call, ret>>

FunInit == call = NoCall /\ ret = NoRet

FunNext == ResolveQuestion \/ CallMcp \/ ParseQuery \/ SearchTool \/ ExcerptTool \/ BuildSnippet \/ PlanHeuristic \/ ExtractHits \/ RunSearchPlan \/ Authenticate

\* ------------------------------------------------------------ server thread
\* MCPServerThread and the thread that starts, awaits and stops it.
VARIABLES
  thread_pc,          \* position of run(): "new" before start(), "ended" after run() left
  caller_pc,          \* position of the thread that owns the MCPServerThread
  _is_running,        \* self._is_running
  last_error,         \* self.last_error ("" for None)
  started_event,      \* self.started_event is set
  _shutdown_event,    \* self._shutdown_event: "none", "unset" or "set"
  loop,               \* self.loop: "none", "open" or "closed"
  listening,          \* the endpoint of MCPWebSocketServer is bound
  binds,              \* calls of websockets.serve so far
  run_exc,            \* the exception raised inside the try block of run() ("" for none)
  wait_result,        \* what wait_until_started returned: "none", "true", "false"
  stop_result         \* how stop() ended: "none", "returned", "raised"

threadVars == <<thread_pc, caller_pc, _is_running, last_error, started_event, _shutdown_event, loop, listening, binds, run_exc, wait_result, stop_result>>

ThreadState == [thread_pc |-> thread_pc, caller_pc |-> caller_pc, _is_running |-> _is_running, last_error |-> last_error, started_event |-> started_event, _shutdown_event |-> _shutdown_event, loop |-> loop, listening |-> listening, binds |-> binds, run_exc |-> run_exc, wait_result |-> wait_result, stop_result |-> stop_result]

SetThreadState(t) ==
  /\ thread_pc' = t.thread_pc
  /\ caller_pc' = t.caller_pc
  /\ _is_running' = t._is_running
  /\ last_error' = t.last_error
  /\ started_event' = t.started_event
  /\ _shutdown_event' = t._shutdown_event
  /\ loop' = t.loop
  /\ listening' = t.listening
  /\ binds' = t.binds
  /\ run_exc' = t.run_exc
  /\ wait_result' = t.wait_result
  /\ stop_result' = t.stop_result

\* threading.Thread.start()
start ==
  /\ caller_pc = "init"
  /\ SetThreadState([ThreadState EXCEPT !.caller_pc = "started", !.thread_pc = "import"])

\* run(): the imports; a failing import sets last_error and
\* started_event and returns.
Import(ok) ==
  /\ thread_pc = "import"
  /\ SetThreadState(IF ok THEN [ThreadState EXCEPT !.thread_pc = "new_loop"]
                    ELSE [ThreadState EXCEPT !.last_error = "import", !.started_event = TRUE, !.thread_pc = "ended"])

\* run(): self.loop = asyncio.new_event_loop()
NewLoop ==
  /\ thread_pc = "new_loop"
  /\ SetThreadState([ThreadState EXCEPT !.loop = "open", !.thread_pc = "construct"])

\* run(): self.server = MCPWebSocketServer(cfg), which may raise.
Construct(ok) ==
  /\ thread_pc = "construct"
  /\ SetThreadState([ThreadState EXCEPT !.thread_pc = IF ok THEN "new_event" ELSE "except", !.run_exc = IF ok THEN @ ELSE "construct"])

\* run(): self._shutdown_event = asyncio.Event()
NewShutdownEvent ==
  /\ thread_pc = "new_event"
  /\ SetThreadState([ThreadState EXCEPT !._shutdown_event = "unset", !.thread_pc = "bind"])

\* A failing bind answered by another websockets.serve.
OnBindFailedRetry(t) ==
  IF t.binds < 2 THEN [t EXCEPT !.thread_pc = "bind"] ELSE [t EXCEPT !.thread_pc = "except", !.run_exc = "bind"]

\* MCPWebSocketServer.start: the OSError of websockets.serve leaves as
\* RuntimeError, through _run_server, into the except clause of run().
OnBindFailed(t) == [t EXCEPT !.thread_pc = "except", !.run_exc = "bind"]

\* _run_server: await self.server.start(), one websockets.serve.
Bind(ok) ==
  /\ thread_pc = "bind"
  /\ LET t == [ThreadState EXCEPT !.binds = @ + 1] IN
     SetThreadState(IF ok THEN [t EXCEPT !.listening = TRUE, !.thread_pc = "set_running"] ELSE OnBindFailed(t))

\* _run_server: self._is_running = True
SetRunning ==
  /\ thread_pc = "set_running"
  /\ SetThreadState([ThreadState EXCEPT !._is_running = TRUE, !.thread_pc = "set_started"])

\* _run_server: self.started_event.set()
SetStarted ==
  /\ thread_pc = "set_started"
  /\ SetThreadState([ThreadState EXCEPT !.started_event = TRUE, !.thread_pc = "serving"])

\* _run_server: await self._shutdown_event.wait() returns once the event
\* is set.
ShutdownWait ==
  /\ thread_pc = "serving"
  /\ _shutdown_event = "set"
  /\ SetThreadState([ThreadState EXCEPT !.thread_pc = "server_stop"])

\* _run_server, finally: await self.server.stop()
ServerStop ==
  /\ thread_pc = "server_stop"
  /\ SetThreadState([ThreadState EXCEPT !.listening = FALSE, !.thread_pc = "finally"])

\* run(), except Exception: last_error = str(exc), started_event.set()
RunExcept ==
  /\ thread_pc = "except"
  /\ SetThreadState([ThreadState EXCEPT !.last_error = run_exc, !.started_event = TRUE, !.thread_pc = "finally"])

\* run(), finally: _is_running = False, the loop is closed.
RunFinally ==
  /\ thread_pc = "finally"
  /\ SetThreadState([ThreadState EXCEPT !._is_running = FALSE, !.loop = IF @ = "none" THEN @ ELSE "closed", !.thread_pc = "ended"])

\* wait_until_started: started_event.wait(timeout) returns when the event
\* is set or the timeout is over; the result is
\* started and self._is_running and not self.last_error.
wait_until_started(timed_out) ==
  /\ caller_pc = "started"
  /\ started_event \/ timed_out
  /\ SetThreadState([ThreadState EXCEPT !.caller_pc = "waited", !.wait_result = IF started_event /\ _is_running /\ last_error = "" THEN "true" ELSE "false"])

\* stop(): self._is_running = False
StopClearRunning ==
  /\ caller_pc \in {"started", "waited"}
  /\ SetThreadState([ThreadState EXCEPT !._is_running = FALSE, !.caller_pc = "stop_signal"])

\* stop() without the call_soon_threadsafe.
stop_signalNone(t) == [t EXCEPT !.caller_pc = "stop_join"]

\* stop(): if self.loop and self._shutdown_event:
\* self.loop.call_soon_threadsafe(self._shutdown_event.set), which raises
\* RuntimeError on a closed loop; the callback runs in the loop, where
\* the only reader of the event is.
stop_signal(t) ==
  IF t.loop # "none" /\ t._shutdown_event # "none"
  THEN IF t.loop = "closed" THEN [t EXCEPT !.caller_pc = "stopped", !.stop_result = "raised"]
       ELSE [t EXCEPT !._shutdown_event = "set", !.caller_pc = "stop_join"]
  ELSE [t EXCEPT !.caller_pc = "stop_join"]

StopSignal ==
  /\ caller_pc = "stop_signal"
  /\ SetThreadState(stop_signal(ThreadState))

\* stop(): self.join(timeout=2) returns when run() has left or the two
\* seconds are over.
StopJoin(timed_out) ==
  /\ caller_pc = "stop_join"
  /\ thread_pc = "ended" \/ timed_out
  /\ SetThreadState([ThreadState EXCEPT !.caller_pc = "stopped", !.stop_result = "returned"])

ThreadInit ==
  /\ thread_pc = "new"
  /\ caller_pc = "init"
  /\ _is_running = FALSE
  /\ last_error = ""
  /\ started_event = FALSE
  /\ _shutdown_event = "none"
  /\ loop = "none"
  /\ listening = FALSE
  /\ binds = 0
  /\ run_exc = ""
  /\ wait_result = "none"
  /\ stop_result = "none"

\* The steps of run() in the server thread.
RunStep ==
  \/ \E ok \in BOOLEAN : Import(ok)
  \/ NewLoop
  \/ \E ok \in BOOLEAN : Construct(ok)
  \/ NewShutdownEvent
  \/ \E ok \in BOOLEAN : Bind(ok)
  \/ SetRunning
  \/ SetStarted
  \/ ShutdownWait
  \/ ServerStop
  \/ RunExcept
  \/ RunFinally

\* The steps of the owning thread.
CallerStep ==
  \/ start
  \/ \E timed_out \in BOOLEAN : wait_until_started(timed_out)
  \/ StopClearRunning
  \/ StopSignal
  \/ \E timed_out \in BOOLEAN : StopJoin(timed_out)

ThreadNext == RunStep \/ CallerStep

vars == <<agentVars, serverVars, funVars, threadVars, connVars>>

\* The agent against any tool server and chat provider.
Init == AgentInit /\ ServerInit /\ FunInit /\ ThreadInit /\ ConnsInit

Next == AgentNext /\ UNCHANGED <<serverVars, funVars, threadVars, connVars>>

Spec == Init /\ [][Next]_vars

\* One connection of the server against any client.
ServerOnlyInit == ServerInit /\ AgentInit /\ FunInit /\ ThreadInit /\ ConnsInit /\ cfg = (CHOOSE c \in Configs : TRUE) /\ tool_schemas = {}

ServerOnlyNext == ServerNext /\ UNCHANGED <<agentVars, funVars, threadVars, connVars>>

ServerSpec == ServerOnlyInit /\ [][ServerOnlyNext]_vars

\* A sequence of calls on one new agent, with the preferences left at
\* one round and one hit and replies of at most one hit.
SessionConfig == [max_search_rounds |-> 1, min_hits_before_stop |-> 2, max_total_hits |-> 1, max_excerpts |-> 1, target_sources |-> 2, max_hits_total |-> 2, use_llm_query_planning |-> FALSE, second_keyword_language_enabled |-> FALSE]

SessionSearchReplies == {[error |-> TRUE, hits |-> <<>>], [error |-> FALSE, hits |-> <<>>], [error |-> FALSE, hits |-> <<[book_id |-> 1, isbn |-> "i1"]>>]}

SessionInit == AgentInit /\ ServerInit /\ FunInit /\ ThreadInit /\ ConnsInit /\ cfg = SessionConfig /\ tool_schemas = {}

SessionNext ==
  /\ \/ \E q \in Questions : answer_with_sources(q)
     \/ \E reply \in ListToolsReplies : ListToolsReply(reply)
     \/ \E reply \in SessionSearchReplies : SearchReply(reply)
     \/ \E reply \in ExcerptReplies : ExcerptReply(reply)
     \/ \E ok \in BOOLEAN : AskLlmReply(ok)
     \/ send_message
  /\ UNCHANGED <<serverVars, funVars, threadVars, connVars>>

SessionSpec == SessionInit /\ [][SessionNext]_vars

\* One function, called once on arguments of its domain.
FunOnlyInit == AgentInit /\ ServerInit /\ ThreadInit /\ ConnsInit /\ cfg = (CHOOSE c \in Configs : TRUE) /\ tool_schemas = {} /\ (call \in ResolveCalls \/ call \in RpcCalls \/ call \in ParseCalls \/ call \in SearchCalls \/ call \in ExcerptCalls \/ call \in SnippetCalls \/ call \in PlanCalls \/ call \in HitsCalls \/ call \in SearchPlanCalls \/ call \in AuthCalls) /\ ret = NoRet

FunOnlyNext == FunNext /\ UNCHANGED <<agentVars, serverVars, threadVars, connVars>>

FunSpec == FunOnlyInit /\ [][FunOnlyNext]_vars

\* The server with two connections open at once.
ConnsOnlyInit == AgentInit /\ ServerInit /\ FunInit /\ ThreadInit /\ ConnsInit /\ cfg = (CHOOSE c \in Configs : TRUE) /\ tool_schemas = {}

ConnsOnlyNext == ConnsNext /\ UNCHANGED <<agentVars, funVars, threadVars>>

ConnsSpec == ConnsOnlyInit /\ [][ConnsOnlyNext]_vars

\* One MCPServerThread and the thread that owns it.
ThreadOnlyInit == AgentInit /\ ServerInit /\ FunInit /\ ThreadInit /\ ConnsInit /\ cfg = (CHOOSE c \in Configs : TRUE) /\ tool_schemas = {}

ThreadOnlyNext == ThreadNext /\ UNCHANGED <<agentVars, serverVars, funVars, connVars>>

ThreadSpec == ThreadOnlyInit /\ [][ThreadOnlyNext]_vars

\* The same, with the server thread scheduled: a step of run() that can be
\* taken is taken.
ThreadLiveSpec == ThreadSpec /\ WF_vars(RunStep /\ UNCHANGED <<agentVars, serverVars, funVars, connVars>>)

\* ------------------------------------------------------------------ claims
HitsOf(enr) == [i \in 1..Len(enr) |-> enr[i].hit]

DistinctKeys(hits) == \A i, j \in 1..Len(hits) : i # j => identity_key(hits[i]) # identity_key(hits[j])

\* Indices of the hits whose excerpt call failed.
FailedExcerpts == {obs.excerpt_log[k].i : k \in {n \in 1..Len(obs.excerpt_log) : obs.excerpt_log[n].reply = "fail"}}

\* C1: a call enters at most max_search_rounds rounds of the search loop,
\* and the hit list it aggregates and the one it returns have at most
\* max_total_hits entries.
BoundedSearch ==
  /\ obs.rounds <= cfg.max_search_rounds
  /\ Len(all_hits) <= cfg.max_total_hits
  /\ Len(result.hits) <= cfg.max_total_hits

\* An answered call that used all its rounds and returns max_total_hits hits
\* out of more distinct ones found.
BoundedSearchWitness ==
  /\ result.answer = "llm_text"
  /\ Len(result.hits) = cfg.max_total_hits
  /\ obs.rounds = cfg.max_search_rounds
  /\ obs.searches >= 2

\* C2: once a round has ended with at least min_hits_before_stop aggregated
\* hits, the call plans no follow-up query and sends no further search: it
\* is in the enrichment, at the answer prompt, or over.
EarlyStop == obs.enough => (obs.followups = 0 /\ obs.rounds = 1 /\ pc \in {"excerpt", "ask_llm", "done"})

\* min_hits_before_stop alone stops the loop: rounds and max_total_hits
\* would both allow another round.
EarlyStopWitness ==
  /\ obs.enough
  /\ pc = "ask_llm"
  /\ obs.rounds < cfg.max_search_rounds
  /\ Len(all_hits) < cfg.max_total_hits

\* C3: no two aggregated hits, and no two returned hits, share the identity
\* key (book_id, isbn); all_ids holds exactly the keys of all_hits.
NoDuplicateHits ==
  /\ DistinctKeys(all_hits)
  /\ DistinctKeys(HitsOf(result.hits))
  /\ all_ids = {identity_key(all_hits[i]) : i \in 1..Len(all_hits)}

\* An answered call whose round hits named a document twice.
NoDuplicateHitsWitness == obs.dups > 0 /\ result.answer = "llm_text" /\ Len(result.hits) >= 2

\* A message the handler can take apart: text that is no JSON, or a request
\* object whose call_tool params are an object.
Decodable(msg) == msg.kind = "invalid_json" \/ (msg.kind = "request" /\ (msg.method = "call_tool" => msg.params = "dict"))

\* C4: a call_tool request whose tool raises is answered with the error
\* response "Tool failed" under the request's id, the handler goes on, and
\* the next message it can take apart is answered.
ToolRaiseSurvived ==
  \A k \in 1..Len(served) : served[k].tool = "raise" =>
    /\ served[k].response = make_error_response(request_id(served[k].msg.id), "Tool failed", "internal_error")
    /\ (k = Len(served) => srv_pc # "crashed")
    /\ (k < Len(served) /\ Decodable(served[k + 1].msg)) => served[k + 1].response.kind # "none"

\* A raising tool call followed by a request that got its result.
ToolRaiseSurvivedWitness == \E k \in 1..(Len(served) - 1) : served[k].tool = "raise" /\ served[k + 1].response.kind = "result"

\* C5: no exception leaves answer_with_sources.
NeverRaises == result.kind # "raised"

\* C6: a call that did not end with the provider's answer leaves
\* last_question and last_hits as they were before it.
SessionOnlyOnSuccess == (pc = "done" /\ result.answer # "llm_text") => (last_question = obs.pre_question /\ last_hits = obs.pre_hits)

\* C7: a transport error on list_tools or on a search call ends the call
\* with the research-failed message and no hits; the request is not sent
\* again, and no excerpt call and no answer prompt follow.
TransportErrorAborts ==
  obs.rpc_error # "none" =>
    /\ pc = "done"
    /\ result = Returned("research_failed", "connection", <<>>)
    /\ obs.excerpts = 0
    /\ obs.answer_chats = 0
    /\ obs.followups = 0
    /\ (obs.rpc_error = "list_tools" => (obs.list_tools = 1 /\ obs.searches = 0 /\ obs.kw_chats = 0))

\* The second search call of a plan fails.
TransportErrorAbortsWitness == obs.rpc_error = "search" /\ obs.searches >= 2 /\ pc = "done"

\* An excerpt call of this call was answered by something that is no
\* JSON object.
MalformedExcerpt == \E n \in 1..Len(obs.excerpt_log) : obs.excerpt_log[n].reply = "malformed"

\* C8: after an excerpt call has failed with a transport error the call is
\* not aborted: the hit is kept without excerpt, the enrichment goes
\* through all hits, and the answer prompt is sent with all of them (no
\* excerpt reply of the call being malformed).
ExcerptFailureTolerated ==
  (FailedExcerpts # {} /\ ~MalformedExcerpt) =>
    /\ obs.rpc_error = "none"
    /\ result.answer # "research_failed"
    /\ pc \in {"excerpt", "ask_llm", "done"}
    /\ \A i \in FailedExcerpts : i <= Len(enriched) => (enriched[i].hit = all_hits[i] /\ enriched[i].excerpt_text = "none")
    /\ pc = "ask_llm" => (HitsOf(enriched) = all_hits /\ Len(enriched) = obs.n_hits)
    /\ pc \in {"ask_llm", "done"} => obs.answer_chats = 1
    /\ result.kind = "returned" => (result.answer = "llm_text" /\ Len(result.hits) = obs.n_hits /\ \A i \in FailedExcerpts : result.hits[i].excerpt_text = "none")

\* An answered call in which one excerpt call failed and a later hit got
\* its excerpt.
ExcerptFailureToleratedWitness ==
  /\ result.answer = "llm_text"
  /\ \E i \in FailedExcerpts : \E j \in (i + 1)..Len(result.hits) : result.hits[j].excerpt_text = "text"

\* C9: an empty tool list ends the call with the research-failed message
\* naming the missing tools and no hits, before any round, keyword prompt
\* or search call.
NoToolsAborts ==
  obs.listed = "empty" =>
    /\ pc = "done"
    /\ result = Returned("research_failed", "no_tools", <<>>)
    /\ obs.rounds = 0
    /\ obs.kw_chats = 0
    /\ obs.searches = 0
    /\ tool_schemas = {}

NoToolsAbortsWitness == obs.listed = "empty" /\ pc = "done" /\ obs.list_tools = 1

\* The EnrichedHits of the call once the enrichment is through.
EnrichedNow == IF pc = "ask_llm" THEN enriched ELSE result.hits

\* Every hit has an isbn, the excerpt tool is served and each of its calls
\* returned a text.
AllExcerptsSucceed ==
  /\ EnrichedNow # <<>>
  /\ EXCERPT_TOOL \in tool_schemas
  /\ \A i \in 1..Len(EnrichedNow) : EnrichedNow[i].hit.isbn # NoIsbn
  /\ \A k \in 1..Len(obs.excerpt_log) : obs.excerpt_log[k].reply = "text"

\* C10: when every hit has an isbn and every excerpt call returns a text,
\* the first min(n, max_excerpts) EnrichedHits carry a text and the others
\* carry none.
ExcerptCap ==
  AllExcerptsSucceed =>
    /\ \A i \in 1..Len(EnrichedNow) : EnrichedNow[i].excerpt_text = (IF i <= cfg.max_excerpts THEN "text" ELSE "none")
    /\ Cardinality({i \in 1..Len(EnrichedNow) : EnrichedNow[i].excerpt_text = "text"}) = (IF Len(EnrichedNow) < cfg.max_excerpts THEN Len(EnrichedNow) ELSE cfg.max_excerpts)
    /\ Len(obs.excerpt_log) = obs.excerpts

\* More hits than max_excerpts, all with an isbn.
ExcerptCapWitness == AllExcerptsSucceed /\ result.answer = "llm_text" /\ Len(result.hits) > cfg.max_excerpts

\* C11: a call sends at most max_excerpts requests to the excerpt tool,
\* whether they succeed or fail.
ExcerptCallsCapped == obs.excerpts <= cfg.max_excerpts

NoHitsMessage ==
  (obs.loop_ended /\ obs.found = 0) =>
    /\ pc = "done"
    /\ result = Returned("no_hits", "", <<>>)
    /\ obs.excerpts = 0
    /\ obs.answer_chats = 0

\* The last round's searches were answered without a hit.
NoHitsMessageWitness == obs.loop_ended /\ obs.found = 0 /\ obs.searches >= 1 /\ obs.rpc_error = "none" /\ pc = "done"

UndecodableAnswered ==
  \A k \in 1..Len(served) : served[k].msg.kind \in {"invalid_json", "non_object"} =>
    /\ served[k].response.kind = "error"
    /\ served[k].response.id = "-"
    /\ (k = Len(served) => srv_pc # "crashed")

\* A call_tool request that names a tool the server does not have.
UnknownTool(msg) == msg.kind = "request" /\ msg.method = "call_tool" /\ msg.params = "dict" /\ msg.name # "" /\ msg.name \notin tool_table

\* C16: a call_tool request naming an unknown tool is answered with the
\* "not_found" error under the request's id, no tool runs for it, and the
\* handler goes on and answers the next message it can take apart.
UnknownToolNotFound ==
  /\ srv_pc = "in_tool" => current.name \in tool_table
  /\ \A k \in 1..Len(served) : UnknownTool(served[k].msg) =>
       /\ served[k].response = make_error_response(request_id(served[k].msg.id), "Unknown tool", "not_found")
       /\ served[k].tool = "none"
       /\ (k = Len(served) => srv_pc # "crashed")
       /\ (k < Len(served) /\ Decodable(served[k + 1].msg)) => served[k + 1].response.kind # "none"

\* An unknown tool, then a tool call that got its result.
UnknownToolNotFoundWitness == \E k \in 1..(Len(served) - 1) : UnknownTool(served[k].msg) /\ served[k + 1].tool = "ok" /\ served[k + 1].response.kind = "result"

\* C17: the response to a request object carries the request's id,
\* unchanged.
IdEchoed ==
  \A k \in 1..Len(served) : (served[k].msg.kind = "request" /\ served[k].msg.id.kind # "none" /\ served[k].response.kind # "none") =>
    IdStr(served[k].response.id) = served[k].msg.id

\* The messages the handler has taken, in the order it took them.
Taken == [k \in 1..Len(served) |-> served[k].msg] \o (IF srv_pc = "in_tool" THEN <<current>> ELSE <<>>)

\* Messages are taken in arrival order, one at a time.
InArrivalOrder == Taken \o inbox = received

\* C18: every message the handler has taken got its response before the
\* next one was taken, in arrival order, and at most one tool call runs.
OneResponseInOrder ==
  /\ InArrivalOrder
  /\ \A k \in 1..Len(served) : served[k].response.kind # "none"

\* C19: a _call_mcp call returns a response without an error member, or
\* it raises MCPTransportError; it returns only when the response text
\* arrived and is an object with a result.
RpcOnlyTransportError ==
  (call.fn = "rpc" /\ ret.done) =>
    /\ ret.exc \in {"", "MCPTransportError"}
    /\ ret.exc = "" => (call.transport = "received" /\ call.body = "result" /\ ret.body = "result")

IsOp(tok) == Upper(tok) \in {"AND", "OR"}

\* Position of the j-th keyword of toks.
KeywordAt(toks, j) == CHOOSE i \in 1..Len(toks) : ~IsOp(toks[i]) /\ Cardinality({k \in 1..(i - 1) : ~IsOp(toks[k])}) = j - 1

\* The j-th keyword (j > 1) opens a group: operators stand between it and
\* the keyword before it, and the last of them is OR.
OpensGroup(toks, j) ==
  LET ops == (KeywordAt(toks, j - 1) + 1)..(KeywordAt(toks, j) - 1)
  IN ops # {} /\ Upper(toks[KeywordAt(toks, j) - 1]) = "OR"

\* Number of the group the j-th keyword belongs to.
GroupOf(toks, j) == 1 + Cardinality({k \in 2..j : OpensGroup(toks, k)})

\* The OR-of-AND groups of toks, keyword by keyword.
ReferenceGroups(toks) ==
  LET n == Cardinality({i \in 1..Len(toks) : ~IsOp(toks[i])})
      ng == IF n = 0 THEN 0 ELSE GroupOf(toks, n)
      first(g) == CHOOSE j \in 1..n : GroupOf(toks, j) = g /\ \A k \in 1..(j - 1) : GroupOf(toks, k) # g
      size(g) == Cardinality({j \in 1..n : GroupOf(toks, j) = g})
  IN [g \in 1..ng |-> [m \in 1..size(g) |-> toks[KeywordAt(toks, first(g) + m - 1)]]]

\* C20: the parser returns the OR-of-AND groups of its tokens: a keyword
\* opens a group exactly when the last operator before it was OR and a
\* keyword precedes it, no group is empty, and operators count in any
\* letter case.
ParsedGroups ==
  (call.fn = "parse" /\ ret.done) =>
    /\ ret.groups = ReferenceGroups(call.tokens)
    /\ \A g \in 1..Len(ret.groups) : ret.groups[g] # <<>>
    /\ call.tokens = <<"a", "AND", "b">> => ret.groups = <<(<<"a", "b">>)>>
    /\ call.tokens = <<"a", "OR", "b">> => ret.groups = <<(<<"a">>), (<<"b">>)>>
    /\ call.tokens = <<"a", "AND", "b", "OR", "a">> => ret.groups = <<(<<"a", "b">>), (<<"a">>)>>
    /\ call.tokens = <<>> => ret.groups = <<>>

\* "a or b a" parsed into two groups, the second of two keywords.
ParsedGroupsWitness == call.fn = "parse" /\ ret.done /\ call.tokens = <<"a", "Or", "b", "a">> /\ ret.groups = <<(<<"a">>), (<<"b", "a">>)>>

\* A query without keywords: empty, or operators only.
NoKeywords(toks) == \A i \in 1..Len(toks) : IsOp(toks[i])

\* C21: a search whose query has no keyword returns an empty list and no
\* error, whatever the store holds and whether or not it exists.
EmptyQueryNoHits ==
  (call.fn = "search" /\ ret.done /\ NoKeywords(call.tokens)) => (ret.hits = <<>> /\ ret.exc = "")

\* A query of operators only against a store with three books.
EmptyQueryNoHitsWitness == call.fn = "search" /\ ret.done /\ call.tokens = <<"AND", "or">> /\ Cardinality(call.store.docs) = 3 /\ ret.hits = <<>>

\* Unicode case folding of a character.
Fold(ch) ==
  CASE ch = "B" -> "b"
    [] ch = "X" -> "x"
    [] ch = "Ä" -> "ä"
    [] OTHER -> ch

\* term is contained in text as a literal substring, letter case aside.
ContainsFolded(text, term) == \E off \in 0..(Len(text) - Len(term)) : \A i \in 1..Len(term) : Fold(term[i]) = Fold(text[off + i])

\* Some group of the query has every keyword in title, isbn or comments.
MatchesQuery(book, toks) ==
  LET groups == ReferenceGroups(toks) IN
  \E g \in 1..Len(groups) : \A k \in 1..Len(groups[g]) :
    \E text \in {book.title, book.isbn, book.comments} : ContainsFolded(text, Chars(groups[g][k]))

\* C22: with a limit that cuts nothing off, the books a search returns
\* are exactly those of which some keyword group matches: every keyword
\* of the group is a literal substring, letter case aside, of the title,
\* the isbn or the comments.
SearchMatchesLiterally ==
  (call.fn = "search" /\ ret.done /\ call.store.present /\ call.limit >= Cardinality(call.store.docs)) =>
    Range(ret.hits) = {b.id : b \in {d \in call.store.docs : MatchesQuery(d, call.tokens)}}

\* The ids of the books the WHERE clause selects.
Selected == {b.id : b \in {d \in call.store.docs : where_sql(d, _parse_boolean_query(call.tokens))}}

\* C23: a search returns at most limit hits, in ascending order of book
\* id, and they are the first limit selected books: no selected book left
\* out has a smaller id than a returned one, and none is left out when
\* fewer than limit are returned.
SearchLimited ==
  (call.fn = "search" /\ ret.done /\ ret.exc = "") =>
    /\ Len(ret.hits) <= call.limit
    /\ \A i, j \in 1..Len(ret.hits) : i < j => ret.hits[i] < ret.hits[j]
    /\ Range(ret.hits) \subseteq Selected
    /\ \A id \in Selected \ Range(ret.hits) : Len(ret.hits) = call.limit /\ \A i \in 1..Len(ret.hits) : ret.hits[i] < id

\* Two books selected, limit 1: the one with the smaller id is returned.
SearchLimitedWitness == call.fn = "search" /\ ret.done /\ call.limit = 1 /\ Cardinality(Selected) >= 2 /\ ret.hits = <<1>>

\* The identifier with only its digits and X kept, x written as X.
RECURSIVE DigitsAndX(_)
DigitsAndX(isbn) ==
  IF isbn = <<>> THEN <<>>
  ELSE (IF IsDigit(Head(isbn)) THEN <<Head(isbn)>> ELSE IF Head(isbn) \in {"x", "X"} THEN <<"X">> ELSE <<>>) \o DigitsAndX(Tail(isbn))

\* C24: the identifier used for matching is the input with only its
\* digits and X kept, a lowercase x written as X; 978-3-446-42933-8 gives
\* 9783446429338.
IsbnNormalized ==
  (call.fn = "excerpt" /\ ret.done) =>
    /\ ret.normalized = DigitsAndX(call.isbn)
    /\ call.isbn = Isbn13 => ret.normalized = <<"9", "7", "8", "3", "4", "4", "6", "4", "2", "9", "3", "3", "8">>

\* A tool call that reaches the store: a search with a keyword, an
\* excerpt call whose identifier has a digit or an X.
ReachesStore == (call.fn = "search" /\ ~NoKeywords(call.tokens)) \/ (call.fn = "excerpt" /\ \E i \in 1..Len(call.isbn) : IsDigit(call.isbn[i]) \/ call.isbn[i] \in {"x", "X"})

PlanningFallsBack ==
  [][KwPrimaryReply([error |-> TRUE, lines |-> <<>>]) => SetState(OnPrimaryKeywords(State, HeuristicKeywords(effective_question)))]_vars

\* stop() has been called after a wait_until_started that returned True.
StoppedAfterStarted == caller_pc = "stopped" /\ wait_result = "true"

\* C27: after start() and a wait_until_started() that returned True,
\* stop() leaves is_running False and the server is shut down: run()
\* leaves and the endpoint is closed.
StopShutsDown ==
  /\ [](StoppedAfterStarted => ~_is_running)
  /\ StoppedAfterStarted ~> (thread_pc = "ended" /\ ~listening /\ ~_is_running)

StopShutsDownWitness == StoppedAfterStarted /\ stop_result = "returned" /\ thread_pc = "ended" /\ ~listening

\* C28: the endpoint is bound at most once; when the bind has failed the
\* server never listens and is_running stays False, no wait_until_started
\* returns True, and once the thread has answered the caller (started_event
\* set) last_error names the failure.
BindOnce ==
  /\ binds <= 1
  /\ run_exc = "bind" =>
       /\ ~listening /\ ~_is_running
       /\ wait_result # "true"
       /\ started_event => last_error = "bind"

BindOnceWitness == binds = 1 /\ run_exc = "bind" /\ last_error = "bind" /\ thread_pc = "ended" /\ wait_result = "false" /\ ~_is_running /\ started_event

\* C29: the session update stores the question as the user gave it, not
\* the effective question; the stored question never holds the context
\* of an earlier one.
StoresOriginalQuestion ==
  /\ pc = "ask_llm" => last_question = question
  /\ ~Contains(last_question, "(im")

\* A short follow-up, answered in the context of the stored question,
\* is stored on its own.
StoresOriginalQuestionWitness == calls = 2 /\ pc = "ask_llm" /\ obs.pre_question # <<>> /\ question = QShort /\ Contains(effective_question, "(im") /\ last_question = QShort

\* C30: a round after the first plans one follow-up query and searches
\* for it, or, with no new query, ends the loop with the hits collected
\* so far kept for the answer.
FollowupRefines ==
  [][pc = "followup" => \/ pc' = "search" /\ all_hits' = all_hits /\ Len(plan') = 1
                        \/ SetState(AfterLoop(State))]_vars

\* The keywords of a raw query: its runs of non-blank characters.
RECURSIVE Words(_, _)
Words(raw, word) ==
  IF raw = <<>> THEN (IF word = <<>> THEN {} ELSE {word})
  ELSE IF Head(raw) = " " THEN (IF word = <<>> THEN {} ELSE {word}) \cup Words(Tail(raw), <<>>)
  ELSE Words(Tail(raw), Append(word, Head(raw)))

\* The window of the given size around 0-based position idx.
WindowAt(text, idx, window) ==
  LET begin == IF idx - (window \div 2) > 0 THEN idx - (window \div 2) ELSE 0 IN
  SubSeq(text, begin + 1, IF begin + window < Len(text) THEN begin + window ELSE Len(text))

\* C31: the snippet is a window around the whole query where it occurs,
\* else a window around the first occurrence of a keyword that occurs,
\* else the first characters of the annotation, else (blank annotation)
\* the title; it is never longer than the window.
SnippetChain ==
  (call.fn = "snippet" /\ ret.done) =>
    LET cleaned == Strip(call.comments)
        low == PyLower(cleaned)
        whole == Find(low, PyLower(call.raw))
        found == {w \in Words(PyLower(call.raw), <<>>) : Find(low, w) >= 0}
    IN /\ Len(ret.text) <= call.window
       /\ IF cleaned = <<>> THEN ret.text = call.title
          ELSE IF whole >= 0 THEN ret.text = WindowAt(cleaned, whole, call.window)
          ELSE IF found # {} THEN \E w \in found : ret.text = WindowAt(cleaned, Find(low, w), call.window)
          ELSE ret.text = SubSeq(cleaned, 1, IF call.window < Len(cleaned) THEN call.window ELSE Len(cleaned))

\* Tokens of fewer than 3 characters, and two words of any German and
\* English stop-word set.
ShortTokens == {"im"}

StopWords == {"der", "the"}

RECURSIVE Kept(_)
Kept(tokens) ==
  IF tokens = <<>> THEN <<>>
  ELSE (IF Head(tokens) \in ShortTokens \cup StopWords THEN <<>> ELSE <<<<Head(tokens)>>>>) \o Kept(Tail(tokens))

\* C32: on the heuristic path the primary keywords are the lowercased
\* tokens of the question without the tokens shorter than 3 characters
\* and without the stop words, in order, cut to max_search_keywords; there
\* are no secondary keywords.
HeuristicFilters ==
  (call.fn = "heuristic" /\ ret.done) =>
    /\ ret.groups = Take(Kept(CleanedTokens(call.base)), max_search_keywords)
    /\ ret.hits = <<>>

\* C33: the hits extracted from a result that carries them in content
\* blocks of type text, the server's own result included, are the hits
\* extracted from the result that carries them directly under "hits".
SameHitsEitherShape ==
  (call.fn = "hits" /\ ret.done) => ret.hits = _run_fulltext_search(Result(TRUE, call.items, FALSE, <<>>), P1)

\* Two hits and a string between them, as the server sends them.
SameHitsEitherShapeWitness ==
  /\ call.fn = "hits" /\ ret.done /\ call.shape = "server"
  /\ Len(call.items) = 2 /\ call.items[1].kind = "dict" /\ call.items[2].kind = "str"
  /\ Len(ret.hits) = 1

\* C34: whatever an excerpt call returns or raises, the enrichment goes
\* on to the next hit or returns, the hits are untouched, and the list
\* built so far wraps the first hits in their order; the list returned
\* has one entry per hit.
EnrichmentFrame ==
  [][pc = "excerpt" => /\ pc' \in {"excerpt", "ask_llm"}
                       /\ all_hits' = all_hits
                       /\ HitsOf(enriched') = SubSeq(all_hits, 1, Len(enriched'))
                       /\ pc' = "ask_llm" => Len(enriched') = Len(all_hits)]_vars

\* What a connection on its own gets for one message, the tool ending
\* as given.
Alone(msg, tool) ==
  LET fresh == [tool_table |-> {FULLTEXT_TOOL, EXCERPT_TOOL}, srv_pc |-> "idle", inbox |-> <<>>, current |-> NoMsg, served |-> <<>>, received |-> <<>>]
      s1 == OnMessage(fresh, msg)
      s2 == IF s1.srv_pc = "in_tool" THEN OnToolDone(s1, tool) ELSE s1
  IN s2.served[1]

\* C35: on every connection the responses are, message by message, what
\* the connection gets on its own; a connection is closed by the server
\* only over a message of its own; the tool table stays as it was built.
ConnectionsIsolated ==
  /\ tool_table = {FULLTEXT_TOOL, EXCERPT_TOOL}
  /\ \A c \in Conns :
       /\ Len(conns[c].served) <= Len(conns[c].received)
       /\ \A i \in 1..Len(conns[c].served) :
            /\ conns[c].served[i].msg = conns[c].received[i]
            /\ conns[c].served[i] = Alone(conns[c].received[i], conns[c].served[i].tool)
       /\ conns[c].srv_pc = "crashed" =>
            /\ conns[c].served # <<>>
            /\ conns[c].served[Len(conns[c].served)].response = NoResponse

\* One connection has ended over a message that is no object, the other
\* has got an error for a raising tool and then a result.
ConnectionsIsolatedWitness ==
  /\ conns["c1"].srv_pc = "crashed"
  /\ conns["c2"].srv_pc = "idle"
  /\ Len(conns["c2"].served) = 2
  /\ conns["c2"].served[1].tool = "raise"
  /\ conns["c2"].served[2].response.kind = "result"

\* No request has been sent and no provider called in the current call.
NothingSent == obs.list_tools = 0 /\ obs.searches = 0 /\ obs.excerpts = 0 /\ obs.kw_chats = 0 /\ obs.answer_chats = 0 /\ obs.followups = 0 /\ obs.rounds = 0

\* C36: a call with a question that is empty or white space only returns
\* ("", []) at once: no RPC request, no chat-provider call, and tool
\* cache, last question and last hits as they were.
EmptyQuestionFrame ==
  [][\A q \in Questions : (Strip(q) = <<>> /\ answer_with_sources(q)) =>
       /\ pc' = "done"
       /\ result' = Returned("", "", <<>>)
       /\ NothingSent'
       /\ UNCHANGED <<tool_schemas, last_question, last_hits, listed_ok>>]_vars

\* A call on an agent with a session behind it has returned ("", [])
\* and the session is the one the call found.
EmptyQuestionFrameWitness ==
  /\ pc = "done"
  /\ result = Returned("", "", <<>>)
  /\ NothingSent
  /\ obs.pre_question = QLong
  /\ last_question = QLong
  /\ last_hits = AnsweredHits
  /\ tool_schemas = {FULLTEXT_TOOL, EXCERPT_TOOL}

\* The hits a plan has aggregated once the first k of its calls are
\* answered.
RECURSIVE AggregatedAfter(_)
AggregatedAfter(k) ==
  IF k = 0 THEN <<>>
  ELSE PlanMerge(AggregatedAfter(k - 1), [i \in 1..Len(call.replies[k].hits) |-> SearchHit(call.replies[k].hits[i], call.queries[k])], [max_hits_total |-> call.max_hits_total])

\* C37: the queries a plan has sent are the first ones of its list, in
\* list order; none is sent after an unanswered one or after the
\* aggregated hits have reached target_sources, none is left out while
\* they have not; the plan returns at most max_hits_total hits.
PlanInOrder ==
  (call.fn = "plan" /\ ret.done /\ FULLTEXT_TOOL \in call.tools) =>
    /\ Len(ret.sent) <= Len(call.queries)
    /\ ret.sent = SubSeq(call.queries, 1, Len(ret.sent))
    /\ \A k \in 1..(Len(ret.sent) - 1) : ~call.replies[k].error /\ Len(AggregatedAfter(k)) < call.target_sources
    /\ ret.exc = "" =>
         /\ Len(ret.hits) <= call.max_hits_total
         /\ Len(ret.sent) < Len(call.queries) => Len(AggregatedAfter(Len(ret.sent))) >= call.target_sources

\* A plan of three queries has stopped after the second, whose hits took
\* it to target_sources, and returns max_hits_total hits, fewer than it
\* has aggregated.
PlanInOrderWitness ==
  /\ call.fn = "plan"
  /\ ret.done
  /\ ret.exc = ""
  /\ Len(call.queries) = 3
  /\ Len(ret.sent) = 2
  /\ Len(AggregatedAfter(1)) = 1
  /\ call.target_sources = 2
  /\ call.max_hits_total = 1
  /\ Len(ret.hits) = 1

\* The call has listed the tools and the search tool is not among them.
SearchToolMissing == obs.listed = "tools" /\ FULLTEXT_TOOL \notin tool_schemas

\* C38: a call whose tool discovery finds no search tool sends no
\* call_tool request, neither a search nor an excerpt one, ends with the
\* research-failed message naming the tool and no hits, and leaves last
\* question and last hits as they were.
MissingToolFails ==
  SearchToolMissing =>
    /\ obs.searches = 0
    /\ obs.excerpts = 0
    /\ obs.answer_chats = 0
    /\ pc \in {"kw_primary", "kw_secondary", "done"}
    /\ pc = "done" => result = Returned("research_failed", "tool_unavailable", <<>>)
    /\ last_question = obs.pre_question
    /\ last_hits = obs.pre_hits

\* The server lists the excerpt tool only; the call has planned its
\* keywords with the chat provider and has ended.
MissingToolFailsWitness ==
  /\ tool_schemas = {EXCERPT_TOOL}
  /\ obs.listed = "tools"
  /\ obs.kw_chats >= 1
  /\ pc = "done"
  /\ result = Returned("research_failed", "tool_unavailable", <<>>)

\* The request carries an Authorization header, its name in any letter
\* case, whose value is "Bearer " followed by the shared secret and
\* nothing else.
CarriesBearer == \E i \in 1..Len(call.headers) : call.headers[i][1] \in {"authorization", "Authorization"} /\ call.headers[i][2] = <<"Bearer", " ">> \o call.secret

\* C39: an HTTP request reaches the inner application only with an
\* Authorization header of exactly "Bearer <shared secret>"; any other
\* HTTP request is answered by the middleware, with 200 "ok" on /health
\* and with 401 elsewhere, and does not reach the inner application.
BearerOnly ==
  (call.fn = "auth" /\ ret.done /\ call.scope_type = "http") =>
    /\ ret.inner => (CarriesBearer /\ ret.status = 0)
    /\ ~ret.inner => (IF call.path = "/health" THEN ret.status = 200 /\ ret.body = "ok" ELSE ret.status = 401)
    /\ ~CarriesBearer => ~ret.inner

\* A request to /mcp whose second header is the exact credential, the
\* name capitalised, has reached the inner application.
BearerOnlyWitness ==
  /\ call.fn = "auth"
  /\ ret.done
  /\ call.scope_type = "http"
  /\ call.path = "/mcp"
  /\ Len(call.headers) = 2
  /\ call.headers[1][1] = "x-api-key"
  /\ call.headers[2] = <<"Authorization", <<"Bearer", " ", "s", "x">>>>
  /\ call.secret = <<"s", "x">>
  /\ ret.inner

\* C40: once a stop() made at any moment after start() is over, run()
\* comes to its end with is_running False; is_running is never True
\* after run() has ended.
StopAlwaysEnds ==
  /\ (caller_pc = "stopped") ~> (thread_pc = "ended" /\ ~_is_running)
  /\ [](thread_pc = "ended" => ~_is_running)

====
